---- MODULE Spec2Model ----
(***************************************************************************)
(* Backtest engines of the TrendTrackingForHK repository:                  *)
(*   - RBreakerStrategy          (src/baba_rbreaker_simple.py)             *)
(*   - IntradayReversalStrategy  (src/intraday_reversal_strategy.py)       *)
(*   - MidCapBreakoutStrategy    (src/small_cap_breakout.py)               *)
(*                                                                         *)
(* Numbers are integers.  R-Breaker: money and prices in cents, the        *)
(* coefficients f1..f5 and the stop-loss in percent, the six levels        *)
(* multiplied by LevelScale, time in minutes.                              *)
(***************************************************************************)
EXTENDS Integers, Sequences, FiniteSets, TLC

VARIABLES
    engine,     \* which of the three strategy objects this behaviour runs
    rb,         \* RBreakerStrategy: the object's fields
    rbrun,      \* RBreakerStrategy.run_backtest: its position in the data
    id,         \* IntradayReversalStrategy: the object's fields
    idrun,      \* IntradayReversalStrategy.run_backtest: its locals
    idday,      \* IntradayReversalStrategy.simulate_trading_day: its locals
    mc,         \* MidCapBreakoutStrategy: the object's fields
    mcrun       \* MidCapBreakoutStrategy.run_backtest: its locals

vars == <<engine, rb, rbrun, id, idrun, idday, mc, mcrun>>
rbvars == <<rb, rbrun>>
idvars == <<id, idrun, idday>>
mcvars == <<mc, mcrun>>

Abs(x) == IF x < 0 THEN -x ELSE x
Max2(a, b) == IF a >= b THEN a ELSE b
Min2(a, b) == IF a <= b THEN a ELSE b

RECURSIVE SumPnl(_)
\* sum(t.pnl for t in trades)
SumPnl(trades) ==
    IF trades = <<>> THEN 0 ELSE Head(trades).pnl + SumPnl(Tail(trades))

\* max(t.pnl for t in trades) and min(t.pnl for t in trades), trades not empty
MaxPnl(trades) ==
    CHOOSE m \in {trades[i].pnl : i \in 1 .. Len(trades)} :
        \A i \in 1 .. Len(trades) : trades[i].pnl <= m
MinPnl(trades) ==
    CHOOSE m \in {trades[i].pnl : i \in 1 .. Len(trades)} :
        \A i \in 1 .. Len(trades) : m <= trades[i].pnl

\* the trades with a profit and the trades with a loss
Winning(trades) == SelectSeq(trades, LAMBDA t : t.pnl > 0)
Losing(trades) == SelectSeq(trades, LAMBDA t : t.pnl < 0)

\* None of Python, for a time
NoTime == -1

(***************************************************************************)
(*                         R-Breaker engine                                *)
(***************************************************************************)

\* StrategyConfig defaults
f1 == 50
f2 == 15
f3 == 40
f4 == 15
f5 == 30
initial_capital == 10000000
stop_loss_percent == 2
max_hold_minutes == 300
min_price_move == 25
cooldown_minutes == 30
commission_per_share == 1

\* the levels are kept multiplied by 300 = 3 (pivot) * 100 (percent)
LevelScale == 3 * 100

\* bounds of the replayed data
MaxBars == 4
MinutesPerDay == 24 * 60
RBPrices == {9000, 10000, 10100, 19000}
RBFirstMinutes == {570}
RBGaps == {1, 30, 300}
RBRanges == {0, 60}
RBBars == {[close |-> c, high |-> c + d, low |-> c - d] :
              c \in RBPrices, d \in RBRanges}

\* the coefficients of StrategyConfig, at their defaults
StrategyConfig == [f1 |-> f1, f2 |-> f2, f3 |-> f3, f4 |-> f4, f5 |-> f5]

\* variant: the breakout sell level is taken off prev_close - prev_low
rbreaker_levels_sbreak_swapped(config, prev_high, prev_low, prev_close) ==
    LET pivot3 == prev_high + prev_low + prev_close
    IN [bbreak |-> LevelScale * prev_high + 3 * config.f1 * (prev_close - prev_low),
        ssetup |-> 100 * pivot3 + 3 * config.f2 * (prev_high - prev_low),
        senter |-> (100 + config.f3) * pivot3 - 3 * config.f3 * prev_low,
        benter |-> (100 + config.f5) * pivot3 - 3 * config.f5 * prev_high,
        bsetup |-> 100 * pivot3 - 3 * config.f4 * (prev_high - prev_low),
        sbreak |-> LevelScale * prev_low - 3 * config.f1 * (prev_close - prev_low)]

\* calculate_rbreaker_levels under a given configuration: the six levels,
\* each multiplied by LevelScale
rbreaker_levels(config, prev_high, prev_low, prev_close) ==
    LET pivot3 == prev_high + prev_low + prev_close
    IN [bbreak |-> LevelScale * prev_high + 3 * config.f1 * (prev_close - prev_low),
        ssetup |-> 100 * pivot3 + 3 * config.f2 * (prev_high - prev_low),
        senter |-> (100 + config.f3) * pivot3 - 3 * config.f3 * prev_low,
        benter |-> (100 + config.f5) * pivot3 - 3 * config.f5 * prev_high,
        bsetup |-> 100 * pivot3 - 3 * config.f4 * (prev_high - prev_low),
        sbreak |-> LevelScale * prev_low - 3 * config.f1 * (prev_high - prev_close)]

calculate_rbreaker_levels(prev_high, prev_low, prev_close) ==
    rbreaker_levels(StrategyConfig, prev_high, prev_low, prev_close)

\* variant: no minimum move is asked of a crossing
min_move_none == 0 * min_price_move

\* config.min_price_move in the unit of the levels
min_move == LevelScale * min_price_move

\* variant: no cooldown after a trade
in_cooldown_never(s, current_time) == FALSE

\* check_trading_signal, lines 256-260: a trade was recorded less than
\* cooldown_minutes before current_time
in_cooldown(s, current_time) ==
    /\ s.last_trade_time # NoTime
    /\ current_time - s.last_trade_time < cooldown_minutes

\* check_trading_signal: <<signal, reason>>
check_trading_signal(s, current_price, levels, current_time) ==
    LET p == LevelScale * current_price
        move == min_move
    IN
    IF in_cooldown(s, current_time)
    THEN <<"HOLD", "cooldown">>
    ELSE IF s.position # 0 THEN
        IF s.position > 0
           /\ 100 * current_price <= s.position_price * (100 - stop_loss_percent)
        THEN <<"SELL", "stop_loss">>
        ELSE IF s.position > 0
           /\ p >= levels.senter /\ Abs(p - levels.senter) >= move
        THEN <<"SELL", "reversal_sell">>
        ELSE IF s.position < 0
           /\ 100 * current_price >= s.position_price * (100 + stop_loss_percent)
        THEN <<"BUY", "stop_loss">>
        ELSE IF s.position < 0
           /\ p <= levels.benter /\ Abs(levels.benter - p) >= move
        THEN <<"BUY", "reversal_buy">>
        ELSE IF s.position_time # NoTime
           /\ current_time - s.position_time >= max_hold_minutes
        THEN (IF s.position > 0 THEN <<"SELL", "timeout">>
                                ELSE <<"BUY", "timeout">>)
        ELSE <<"HOLD", "">>
    ELSE
        IF p > levels.bbreak /\ Abs(p - levels.bbreak) >= move
        THEN <<"BUY", "breakout_buy">>
        ELSE IF p < levels.sbreak /\ Abs(levels.sbreak - p) >= move
        THEN <<"SELL", "breakout_sell">>
        ELSE <<"HOLD", "">>

\* the Trade dataclass
Trade(current_time, action, price, quantity, reason, pnl, hold_minutes, commission) ==
    [datetime |-> current_time, action |-> action, price |-> price,
     quantity |-> quantity, amount |-> quantity * price, reason |-> reason,
     pnl |-> pnl, hold_minutes |-> hold_minutes, commission |-> commission]

\* execute_trade, lines 373-392: total_commission, the trade log, last_trade_time
record_trade(s, trade) ==
    [s EXCEPT !.total_commission = @ + trade.commission,
              !.trades = Append(@, trade),
              !.last_trade_time = trade.datetime]

hold_minutes_of(s, current_time) ==
    IF s.position_time # NoTime THEN current_time - s.position_time ELSE 0

\* int(current_capital / (price + commission_per_share))
max_quantity(capital, price) ==
    IF capital >= 0 THEN capital \div (price + commission_per_share)
    ELSE -((-capital) \div (price + commission_per_share))

\* cash debited when a position is opened: amount + commission
open_cost(price, quantity) ==
    quantity * price + quantity * commission_per_share

\* variant: pnl of closing a long position with no commission deducted
long_pnl_gross(s, price, quantity) ==
    (price - s.position_price) * quantity

\* pnl of closing a long position, net of the closing commission
long_pnl(s, price, quantity) ==
    (price - s.position_price) * quantity - quantity * commission_per_share

\* pnl of closing a short position, net of the closing commission
short_pnl(s, price, quantity) ==
    (s.position_price - price) * quantity - quantity * commission_per_share

\* variant: closing a long position credits the amount, commission not deducted
close_long_credit_gross(s, price, quantity) ==
    quantity * price

\* cash credited when a long position is closed: amount - commission
close_long_credit(s, price, quantity) ==
    quantity * price - quantity * commission_per_share

\* cash credited when a short position is closed: original margin + pnl
close_short_credit(s, price, quantity) ==
    s.position_price * quantity + short_pnl(s, price, quantity)

\* variant: a closing trade turns the position round instead of ending it
flat_reversed(s) == [s EXCEPT !.position = 0 - @]

\* lines 322-324 and 354-356: the position fields after a closing trade
flat(s) == [s EXCEPT !.position = 0, !.position_price = 0, !.position_time = NoTime]

execute_trade(s, signal, price, current_time, reason) ==
    IF signal = "HOLD" THEN s
    ELSE IF signal = "BUY" /\ s.position < 0 THEN
        LET quantity == Abs(s.position)
            commission == quantity * commission_per_share
            pnl == short_pnl(s, price, quantity)
            s1 == flat([s EXCEPT !.current_capital =
                                     @ + close_short_credit(s, price, quantity)])
        IN record_trade(s1, Trade(current_time, signal, price, quantity, reason,
                                  pnl, hold_minutes_of(s, current_time), commission))
    ELSE IF signal = "BUY" /\ s.position = 0 THEN
        LET quantity == max_quantity(s.current_capital, price)
            commission == quantity * commission_per_share
            s1 == [s EXCEPT !.current_capital = @ - open_cost(price, quantity),
                            !.position = quantity,
                            !.position_price = price,
                            !.position_time = current_time]
        IN IF quantity > 0
           THEN record_trade(s1, Trade(current_time, signal, price, quantity,
                                       reason, 0, 0, commission))
           ELSE s
    ELSE IF signal = "SELL" /\ s.position > 0 THEN
        LET quantity == s.position
            commission == quantity * commission_per_share
            pnl == long_pnl(s, price, quantity)
            s1 == flat([s EXCEPT !.current_capital =
                                     @ + close_long_credit(s, price, quantity)])
        IN record_trade(s1, Trade(current_time, signal, price, quantity, reason,
                                  pnl, hold_minutes_of(s, current_time), commission))
    ELSE IF signal = "SELL" /\ s.position = 0 THEN
        LET quantity == max_quantity(s.current_capital, price)
            commission == quantity * commission_per_share
            s1 == [s EXCEPT !.current_capital = @ - open_cost(price, quantity),
                            !.position = -quantity,
                            !.position_price = price,
                            !.position_time = current_time]
        IN IF quantity > 0
           THEN record_trade(s1, Trade(current_time, signal, price, quantity,
                                       reason, 0, 0, commission))
           ELSE s
    ELSE
        \* BUY while long, SELL while short: nothing is traded, a record of
        \* quantity 0 is still appended
        record_trade(s, Trade(current_time, signal, price, 0, reason, 0, 0, 0))

\* RBreakerStrategy.__init__
RBNew ==
    [current_capital |-> initial_capital,
     total_commission |-> 0,
     trades |-> <<>>,
     position |-> 0,
     position_price |-> 0,
     position_time |-> NoTime,
     last_trade_time |-> NoTime]

NoOHLC == [high |-> 0, low |-> 0, close |-> 0]

\* the locals of run_backtest: levels and signal are those of the last bar
\* that was checked
RBRunNew ==
    [pc |-> "idle", day |-> 0, bars |-> 0, time |-> NoTime,
     prev |-> NoOHLC, today |-> NoOHLC, last_close |-> 0,
     levels |-> calculate_rbreaker_levels(0, 0, 0), signal |-> <<"HOLD", "">>,
     reports |-> <<>>]

\* get_daily_ohlc, one more bar of the day: high max, low min, close last
daily_ohlc(today, first, bar) ==
    IF first THEN [high |-> bar.high, low |-> bar.low, close |-> bar.close]
    ELSE [high |-> Max2(today.high, bar.high),
          low |-> Min2(today.low, bar.low),
          close |-> bar.close]

\* run_backtest with no minute data: returns {} before anything is reset
RB_NoData ==
    /\ engine = "rbreaker"
    /\ rbrun.pc = "idle"
    /\ rbrun' = [rbrun EXCEPT !.pc = "done"]
    /\ UNCHANGED <<engine, rb, idvars, mcvars>>

\* run_backtest, lines 408-412: the state it resets
RB_Start ==
    /\ engine = "rbreaker"
    /\ rbrun.pc = "idle"
    /\ rb' = [rb EXCEPT !.trades = <<>>, !.position = 0,
                        !.position_price = 0, !.position_time = NoTime]
    /\ rbrun' = [RBRunNew EXCEPT !.pc = "replay"]
    /\ UNCHANGED <<engine, idvars, mcvars>>

\* variant: the levels are computed from the running OHLC of the current day,
\* the bar being checked included
RB_Bar_lookahead ==
    /\ engine = "rbreaker"
    /\ rbrun.pc = "replay"
    /\ \E newday \in BOOLEAN, bar \in RBBars, m \in RBFirstMinutes, gap \in RBGaps :
        LET opening == newday \/ rbrun.bars = 0
            current_time == IF rbrun.bars = 0 THEN m
                            ELSE IF newday THEN (rbrun.day + 1) * MinutesPerDay + m
                            ELSE rbrun.time + gap
            day == current_time \div MinutesPerDay
            first == rbrun.bars = 0 \/ day > rbrun.day
            prev == daily_ohlc(rbrun.today, first, bar)
            levels == calculate_rbreaker_levels(prev.high, prev.low, prev.close)
            sig == check_trading_signal(rb, bar.close, levels, current_time)
        IN
        /\ rbrun.bars < MaxBars
        /\ (rbrun.bars = 0) => newday
        /\ opening => gap = 1
        /\ rbrun' = [rbrun EXCEPT !.day = day,
                                  !.bars = @ + 1,
                                  !.time = current_time,
                                  !.prev = prev,
                                  !.today = daily_ohlc(@, first, bar),
                                  !.last_close = bar.close,
                                  !.levels = IF day = 0 THEN @ ELSE levels,
                                  !.signal = IF day = 0 THEN @ ELSE sig]
        /\ rb' = IF day = 0 \/ sig[1] = "HOLD" THEN rb
                 ELSE execute_trade(rb, sig[1], bar.close, current_time, sig[2])
    /\ UNCHANGED <<engine, idvars, mcvars>>

\* one minute bar of the data: the first bar of the next day, or a bar a gap
\* after the last one.  The day of a bar is the date of its timestamp (lines
\* 240 and 428), so a gap that runs past midnight starts a new day too.  Bars
\* of the first day only feed the daily OHLC; a bar of a later day is checked
\* against the levels of the day before.
RB_Bar ==
    /\ engine = "rbreaker"
    /\ rbrun.pc = "replay"
    /\ \E newday \in BOOLEAN, bar \in RBBars, m \in RBFirstMinutes, gap \in RBGaps :
        LET opening == newday \/ rbrun.bars = 0
            current_time == IF rbrun.bars = 0 THEN m
                            ELSE IF newday THEN (rbrun.day + 1) * MinutesPerDay + m
                            ELSE rbrun.time + gap
            day == current_time \div MinutesPerDay
            first == rbrun.bars = 0 \/ day > rbrun.day
            prev == IF first /\ rbrun.bars > 0 THEN rbrun.today ELSE rbrun.prev
            levels == calculate_rbreaker_levels(prev.high, prev.low, prev.close)
            sig == check_trading_signal(rb, bar.close, levels, current_time)
        IN
        /\ rbrun.bars < MaxBars
        /\ (rbrun.bars = 0) => newday
        /\ opening => gap = 1
        /\ rbrun' = [rbrun EXCEPT !.day = day,
                                  !.bars = @ + 1,
                                  !.time = current_time,
                                  !.prev = prev,
                                  !.today = daily_ohlc(@, first, bar),
                                  !.last_close = bar.close,
                                  !.levels = IF day = 0 THEN @ ELSE levels,
                                  !.signal = IF day = 0 THEN @ ELSE sig]
        /\ rb' = IF day = 0 \/ sig[1] = "HOLD" THEN rb
                 ELSE execute_trade(rb, sig[1], bar.close, current_time, sig[2])
    /\ UNCHANGED <<engine, idvars, mcvars>>

\* variant: only long positions are liquidated at the end of the data
RB_Finish_long_only ==
    /\ engine = "rbreaker"
    /\ rbrun.pc = "replay"
    /\ rbrun.bars > 0
    /\ rb' = IF rb.position > 0
             THEN execute_trade(rb, "SELL", rbrun.last_close, rbrun.time, "forced")
             ELSE rb
    /\ rbrun' = [rbrun EXCEPT !.pc = "done"]
    /\ UNCHANGED <<engine, idvars, mcvars>>

\* run_backtest, lines 443-453: forced liquidation at the last bar of the data
RB_Finish ==
    /\ engine = "rbreaker"
    /\ rbrun.pc = "replay"
    /\ rbrun.bars > 0
    /\ rb' = IF rb.position > 0
             THEN execute_trade(rb, "SELL", rbrun.last_close, rbrun.time, "forced")
             ELSE IF rb.position < 0
             THEN execute_trade(rb, "BUY", rbrun.last_close, rbrun.time, "forced")
             ELSE rb
    /\ rbrun' = [rbrun EXCEPT !.pc = "done"]
    /\ UNCHANGED <<engine, idvars, mcvars>>

\* the number of times a report is asked for after a backtest
MaxReports == 2

RECURSIVE SumCommission(_)
\* sum(t.commission for t in self.trades)
SumCommission(trades) ==
    IF trades = <<>> THEN 0
    ELSE Head(trades).commission + SumCommission(Tail(trades))

RECURSIVE max_drawdown_pnl(_, _, _, _)
\* generate_report, lines 523-532: the largest fall of the cumulative pnl
\* below its running peak
max_drawdown_pnl(trades, cumulative_pnl, peak, max_drawdown) ==
    IF trades = <<>> THEN max_drawdown
    ELSE LET c == cumulative_pnl + Head(trades).pnl
             p == Max2(peak, c)
         IN max_drawdown_pnl(Tail(trades), c, p, Max2(max_drawdown, p - c))

\* generate_report: the counts, sums and extremes of the report; its means
\* and ratios are quotients of these.  Reads the trade log and the capital.
generate_report(s) ==
    IF s.trades = <<>> THEN [error |-> "no_trades"]
    ELSE
    LET longs == SelectSeq(s.trades, LAMBDA t : t.action = "BUY")
        shorts == SelectSeq(s.trades, LAMBDA t : t.action = "SELL")
        total_pnl == SumPnl(s.trades)
        total_commission == SumCommission(s.trades)
    IN [total_trades |-> Len(s.trades),
        profitable_trades |-> Len(Winning(s.trades)),
        losing_trades |-> Len(Losing(s.trades)),
        break_even_trades |-> Len(SelectSeq(s.trades, LAMBDA t : t.pnl = 0)),
        total_pnl |-> total_pnl,
        \* win_rate, line 469, in tenths of a percent
        win_rate |-> (1000 * Len(Winning(s.trades))) \div Len(s.trades),
        max_profit |-> MaxPnl(s.trades),
        max_loss |-> MinPnl(s.trades),
        long_trades |-> Len(longs),
        short_trades |-> Len(shorts),
        long_pnl |-> SumPnl(longs),
        short_pnl |-> SumPnl(shorts),
        long_wins |-> Len(Winning(longs)),
        short_wins |-> Len(Winning(shorts)),
        max_drawdown |-> max_drawdown_pnl(s.trades, 0, 0, 0),
        trading_days |-> Cardinality({s.trades[i].datetime \div MinutesPerDay :
                                         i \in 1 .. Len(s.trades)}),
        total_commission |-> total_commission,
        net_pnl |-> total_pnl - total_commission,
        final_capital |-> s.current_capital]

\* generate_report called on the strategy after a backtest
RB_Report ==
    /\ engine = "rbreaker"
    /\ rbrun.pc = "done"
    /\ Len(rbrun.reports) < MaxReports
    /\ rbrun' = [rbrun EXCEPT !.reports = Append(@, generate_report(rb))]
    /\ UNCHANGED <<engine, rb, idvars, mcvars>>

\* get_daily_ohlc: the OHLC of one day of the minute data
get_daily_ohlc(data, day) ==
    LET rows == SelectSeq(data, LAMBDA r : r.day = day)
    IN [high |-> CHOOSE h \in {rows[i].high : i \in 1 .. Len(rows)} :
                     \A i \in 1 .. Len(rows) : rows[i].high <= h,
        low |-> CHOOSE l \in {rows[i].low : i \in 1 .. Len(rows)} :
                    \A i \in 1 .. Len(rows) : l <= rows[i].low,
        close |-> rows[Len(rows)].close]

RECURSIVE replay_rows(_, _, _)
\* run_backtest, lines 414-441: the rows from row i on; the rows of the first
\* day are not evaluated, a row of a later day is checked against the levels
\* of the day before it in the data
replay_rows(s, data, i) ==
    IF i > Len(data) THEN s
    ELSE LET row == data[i]
             days == {data[k].day : k \in 1 .. Len(data)}
             prev_date == CHOOSE d \in days :
                              /\ d < row.day
                              /\ \A e \in days : e < row.day => e <= d
             prev == get_daily_ohlc(data, prev_date)
             levels == calculate_rbreaker_levels(prev.high, prev.low, prev.close)
             sig == check_trading_signal(s, row.close, levels, row.time)
         IN IF row.day = data[1].day THEN replay_rows(s, data, i + 1)
            ELSE CHOOSE out \in
                     {replay_rows(v, data, i + 1) :
                         v \in {IF sig[1] = "HOLD" THEN s
                                ELSE execute_trade(s, sig[1], row.close, row.time,
                                                   sig[2])}} : TRUE

\* run_backtest on given minute data, lines 395-453: the strategy it leaves
run_backtest(s, data) ==
    IF data = <<>> THEN s
    ELSE LET reset == [s EXCEPT !.trades = <<>>, !.position = 0,
                                !.position_price = 0, !.position_time = NoTime]
             last == data[Len(data)]
         IN CHOOSE out \in
                {IF v.position > 0
                 THEN execute_trade(v, "SELL", last.close, last.time, "forced")
                 ELSE IF v.position < 0
                 THEN execute_trade(v, "BUY", last.close, last.time, "forced")
                 ELSE v : v \in {replay_rows(reset, data, 1)}} : TRUE

\* the minute data of repeated backtests: at most MaxBars rows; a row opens
\* a new day at the first minute (gap 0) or follows the row before it after
\* 1 or 30 minutes
RBRowGaps == {0, 1, 30}
RBRowSteps == UNION {[1 .. n -> RBPrices \X RBRowGaps] : n \in 1 .. MaxBars}
RBRowTimes(steps) ==
    LET at[i \in 1 .. Len(steps)] ==
            IF i = 1 THEN [day |-> 0, minute |-> CHOOSE m \in RBFirstMinutes : TRUE]
            ELSE IF steps[i][2] = 0
            THEN [day |-> at[i - 1].day + 1, minute |-> CHOOSE m \in RBFirstMinutes : TRUE]
            ELSE [day |-> at[i - 1].day, minute |-> at[i - 1].minute + steps[i][2]]
    IN at
RBDataSets ==
    {[i \in 1 .. Len(steps) |->
         [day |-> RBRowTimes(steps)[i].day,
          time |-> RBRowTimes(steps)[i].day * MinutesPerDay + RBRowTimes(steps)[i].minute,
          close |-> steps[i][1], high |-> steps[i][1], low |-> steps[i][1]]] :
        steps \in {st \in RBRowSteps : st[1][2] = 0}}

\* one call of run_backtest on the data of the session; it returns the
\* report (line 453)
RB_Backtest ==
    /\ engine = "rbreaker"
    /\ rbrun.pc = "calls"
    /\ Len(rbrun.reports) < MaxReports
    /\ LET s == CHOOSE out \in {run_backtest(rb, rbrun.data)} : TRUE
       IN /\ rb' = s
          /\ rbrun' = [rbrun EXCEPT !.logs = Append(@, s.trades),
                                    !.reports = Append(@, generate_report(s))]
    /\ UNCHANGED <<engine, idvars, mcvars>>

NextRBreaker == RB_NoData \/ RB_Start \/ RB_Bar \/ RB_Finish \/ RB_Report

(***************************************************************************)
(*                      Intraday reversal engine                           *)
(* Prices in whole HKD per share, money in units of 0.05 HKD (MoneyScale   *)
(* units per HKD), rates per 10000, thresholds per 1000, volume surge      *)
(* multiples in tenths, time of day in minutes after midnight.             *)
(***************************************************************************)

\* 1 HKD = 20 units: the costs of a lot of 100 shares at a whole price are whole
MoneyScale == 2 * 10

\* IntradayReversalStrategy.__init__
id_initial_capital == 2000000
id_min_drop_percent == 30
id_reversal_confirm_percent == 5
id_stop_loss_percent == 20
id_take_profit_percent == 50
id_commission_rate == 25
id_stamp_duty_rate == 10
id_min_commission == 60
id_max_position_ratio == 95
id_market_open == 570
id_market_close == 960
id_force_close_time == 945
id_min_hold_minutes == 5
id_min_volume_surge == 15

\* bounds of the replayed data: a day opens with a run of one-minute bars
\* at the opening price and the base volume (5 of them: a short day without
\* indicator columns, 12: the moving averages of 5 and 10 bars are defined and
\* that of 20 is not, 20: the history the signals need), then its bars are free; MaxIntradayBars free
\* bars in all are replayed over at most MaxIntradayDays days
MaxIntradayBars == 3
MaxIntradayDays == 2
IDOpeningRuns == {5, 12, 20}
IDOpenPrices == {100}
IDPrices == {95, 97, 102}
IDVolumes == {100, 200}
IDBaseVolume == CHOOSE v \in IDVolumes : \A w \in IDVolumes : v <= w
IDLateTimes == {945}
IDGaps == {1, 5}
\* the configurations: the defaults, and both thresholds at zero
IDConfigs == {[stop_loss_percent |-> id_stop_loss_percent,
               take_profit_percent |-> id_take_profit_percent],
              [stop_loss_percent |-> 0, take_profit_percent |-> 0]}

\* int(a / b) of Python for b > 0: truncation toward zero
TruncDiv(a, b) == IF a >= 0 THEN a \div b ELSE -((-a) \div b)

\* x // 100 * 100
RoundLot(x) == (x \div 100) * 100

RECURSIVE SumField(_, _, _, _)
\* sum of field f ("close" or "volume") of df[lo..hi], 1-based, inclusive
SumField(df, f, lo, hi) ==
    IF lo > hi THEN 0
    ELSE (IF f = "close" THEN df[hi].close ELSE df[hi].volume)
         + SumField(df, f, lo, hi - 1)

(* calculate_intraday_indicators.  i0 is the 0-based row; row i0 is df[i0 + 1]. *)
\* ma5 is defined from row 5 on: the mean of the 5 closes before the row
ma5_defined(df, i0) == Len(df) >= 10 /\ i0 >= 5
ma5_sum(df, i0) == SumField(df, "close", i0 - 4, i0)
\* volume_ma10 is defined from row 10 on: the mean of the 10 volumes before
volume_ma10_defined(df, i0) == Len(df) >= 10 /\ i0 >= 10
volume_ma10_sum(df, i0) == SumField(df, "volume", i0 - 9, i0)
\* volume_surge >= tenths / 10 (notna and comparison)
volume_surge_ge(df, i0, tenths) ==
    /\ volume_ma10_defined(df, i0)
    /\ IF volume_ma10_sum(df, i0) = 0 THEN df[i0 + 1].volume > 0
       ELSE 100 * df[i0 + 1].volume >= tenths * volume_ma10_sum(df, i0)
volume_surge_gt(df, i0, tenths) ==
    /\ volume_ma10_defined(df, i0)
    /\ IF volume_ma10_sum(df, i0) = 0 THEN df[i0 + 1].volume > 0
       ELSE 100 * df[i0 + 1].volume > tenths * volume_ma10_sum(df, i0)
\* price_change > permille / 1000; undefined at row 0
price_change_gt(df, i0, permille) ==
    /\ i0 >= 1
    /\ (df[i0 + 1].close - df[i0].close) * 1000 > permille * df[i0].close
\* cumulative_return <= -permille / 1000, against the day's first open
cumulative_return_le_minus(df, i0, permille) ==
    (df[i0 + 1].close - df[1].open) * 1000 <= -permille * df[1].open

\* calculate_intraday_indicators, lines 168-169: a frame of fewer than 10 rows
\* is returned as it is, without the indicator columns.  df holds the rows of
\* the day read so far; a day still below 10 rows may end below 10 rows.
indicator_columns(df) == Len(df) >= 10

\* variant: the drop rule reads its columns on every row
check_drop_signal_raises_unguarded(df, current_idx) == ~indicator_columns(df)

\* check_drop_signal ends in a KeyError when it reaches the read of
\* cumulative_return (line 201) on a frame without indicator columns; a row
\* below 20 returns before any read (lines 195-196)
check_drop_signal_raises(df, current_idx) ==
    current_idx >= 20 /\ ~indicator_columns(df)

\* check_reversal_signal ends in a KeyError when it reaches the read of
\* price_change (line 223) on a frame without indicator columns; a row below
\* 20 returns before any read (lines 213-214)
check_reversal_signal_raises(df, current_idx) ==
    current_idx >= 20 /\ ~indicator_columns(df)

check_drop_signal(df, current_idx) ==
    /\ current_idx >= 20
    /\ cumulative_return_le_minus(df, current_idx, id_min_drop_percent)
    /\ volume_surge_ge(df, current_idx, id_min_volume_surge)

\* the number of reversal confirmations that hold at the row
reversal_conditions(df, current_idx) ==
    (IF price_change_gt(df, current_idx, id_reversal_confirm_percent) THEN 1 ELSE 0)
    + (IF /\ ma5_defined(df, current_idx) /\ ma5_defined(df, current_idx - 1)
          /\ 5 * df[current_idx + 1].close > ma5_sum(df, current_idx)
          /\ 5 * df[current_idx].close <= ma5_sum(df, current_idx - 1)
       THEN 1 ELSE 0)
    + (IF volume_surge_gt(df, current_idx, 12) THEN 1 ELSE 0)
    + (IF /\ current_idx >= 2
          /\ price_change_gt(df, current_idx, 0)
          /\ price_change_gt(df, current_idx - 1, 0)
       THEN 1 ELSE 0)

\* variant: one reversal confirmation is enough
check_reversal_signal_single(df, current_idx) ==
    /\ current_idx >= 20
    /\ reversal_conditions(df, current_idx) >= 1

check_reversal_signal(df, current_idx) ==
    /\ current_idx >= 20
    /\ reversal_conditions(df, current_idx) >= 2

trade_value(price, quantity) == MoneyScale * price * quantity

\* variant: stamp duty is charged on both sides
calculate_trading_cost_stamp_both(price, quantity, is_buy) ==
    Max2((trade_value(price, quantity) * id_commission_rate) \div 10000,
         id_min_commission)
    + (trade_value(price, quantity) * id_stamp_duty_rate) \div 10000

\* calculate_trading_cost: commission on both sides, stamp duty on a sale
calculate_trading_cost(price, quantity, is_buy) ==
    LET commission == Max2((trade_value(price, quantity) * id_commission_rate) \div 10000,
                           id_min_commission)
        stamp_duty == IF ~is_buy
                      THEN (trade_value(price, quantity) * id_stamp_duty_rate) \div 10000
                      ELSE 0
    IN commission + stamp_duty

\* use_full_position is True
calculate_position_size(current_capital, price) ==
    LET estimated_shares ==
            RoundLot(TruncDiv(current_capital * id_max_position_ratio,
                              100 * MoneyScale * price))
        buy_cost == calculate_trading_cost(price, estimated_shares, TRUE)
        total_cost == trade_value(price, estimated_shares) + buy_cost
    IN IF estimated_shares > 0
       THEN IF total_cost <= current_capital
            THEN estimated_shares
            ELSE RoundLot(TruncDiv(current_capital - buy_cost, MoneyScale * price))
       ELSE 0

NoPosition == [quantity |-> 0]

\* net pnl of leaving the position at exit_price: both costs are deducted
exit_pnl(position, exit_price) ==
    (exit_price - position.entry_price) * position.quantity * MoneyScale
    - position.buy_cost
    - calculate_trading_cost(exit_price, position.quantity, FALSE)

\* cash credited at an exit: proceeds minus the selling cost
exit_credit(position, exit_price) ==
    trade_value(exit_price, position.quantity)
    - calculate_trading_cost(exit_price, position.quantity, FALSE)

\* cash debited at an entry: notional plus the buying cost
entry_debit(price, quantity) ==
    trade_value(price, quantity) + calculate_trading_cost(price, quantity, TRUE)

IntradayTrade(day, position, current_time, exit_price, exit_reason) ==
    [date |-> day,
     entry_time |-> position.entry_datetime,
     exit_time |-> current_time,
     entry_price |-> position.entry_price,
     exit_price |-> exit_price,
     quantity |-> position.quantity,
     pnl |-> exit_pnl(position, exit_price),
     exit_reason |-> exit_reason,
     max_profit |-> position.max_profit,
     max_loss |-> position.max_loss,
     hold_minutes |-> position.hold_minutes]

\* take-profit and stop-loss conditions of lines 407-408 and 441
take_profit_hit(cfg, position, current_price) ==
    (current_price - position.entry_price) * 1000
        >= cfg.take_profit_percent * position.entry_price
stop_loss_hit(cfg, position, current_price) ==
    (current_price - position.entry_price) * 1000
        <= -cfg.stop_loss_percent * position.entry_price

\* the exit checks of lines 406-471: the reason of the exit, "" for none
exit_decision(cfg, position, current_price) ==
    IF take_profit_hit(cfg, position, current_price) THEN "take_profit"
    ELSE IF stop_loss_hit(cfg, position, current_price) THEN "stop_loss"
    ELSE ""

\* variant: no minimum-holding guard, the exit checks run on every bar
min_hold_guard_off(actual_hold_minutes) == FALSE

\* the minimum-holding guard of lines 396-398: the exit checks are skipped
min_hold_guard(actual_hold_minutes) == actual_hold_minutes < id_min_hold_minutes

IDNew(cfg) ==
    [initial_capital |-> id_initial_capital,
     current_capital |-> id_initial_capital,
     stop_loss_percent |-> cfg.stop_loss_percent,
     take_profit_percent |-> cfg.take_profit_percent,
     trades |-> <<>>]

IDRunNew ==
    [pc |-> "idle", days |-> 0, total_pnl |-> 0, bars |-> 0, reports |-> <<>>]

IDDayNew ==
    [pc |-> "none", df |-> <<>>, position |-> NoPosition, daily_trades |-> <<>>,
     looking_for_drop |-> TRUE, drop_detected |-> FALSE, skipped |-> FALSE]

\* run_backtest, lines 497-500
ID_StartBacktest ==
    /\ engine = "intraday"
    /\ idrun.pc = "idle"
    /\ id' = [id EXCEPT !.trades = <<>>, !.current_capital = id.initial_capital]
    /\ idrun' = [IDRunNew EXCEPT !.pc = "running"]
    /\ idday' = IDDayNew
    /\ UNCHANGED <<engine, rbvars, mcvars>>

\* simulate_trading_day on a day without data, lines 292-294
ID_EmptyDay ==
    /\ engine = "intraday"
    /\ idrun.pc = "running"
    /\ idday.pc = "none"
    /\ idrun.days < MaxIntradayDays
    /\ idrun' = [idrun EXCEPT !.days = @ + 1]
    /\ UNCHANGED <<engine, rbvars, mcvars, id, idday>>

\* one iteration of the loop over the day's bars, lines 303-471.  An
\* exception of a signal function leaves the loop and the function: pc
\* "raised", with the state as it was when the exception was raised; what
\* run_backtest does with the exception (lines 521-523) is not modelled, the
\* day stays in "raised".
IterateBar(s, d, day, current_time, current_price, df, i) ==
    LET cfg == s
        position == d.position
        open == position.quantity # 0
    IN
    IF ~(id_market_open <= current_time /\ current_time <= id_market_close)
    THEN <<s, d>>
    ELSE IF current_time >= id_force_close_time /\ open THEN
        <<[s EXCEPT !.current_capital = @ + exit_credit(position, current_price)],
          [d EXCEPT !.daily_trades =
                        Append(@, IntradayTrade(day, position, current_time,
                                                current_price, "force_close")),
                    !.position = NoPosition,
                    !.pc = "after_loop"]>>
    ELSE IF ~open /\ d.looking_for_drop /\ check_drop_signal_raises(df, i) THEN
        <<s, [d EXCEPT !.pc = "raised"]>>
    ELSE IF ~open THEN
        LET is_drop == d.looking_for_drop /\ check_drop_signal(df, i)
            d1 == IF is_drop
                  THEN [d EXCEPT !.drop_detected = TRUE, !.looking_for_drop = FALSE]
                  ELSE d
            quantity == calculate_position_size(s.current_capital, current_price)
            buy_cost == calculate_trading_cost(current_price, quantity, TRUE)
        IN IF d1.drop_detected /\ check_reversal_signal_raises(df, i)
           THEN <<s, [d1 EXCEPT !.pc = "raised"]>>
           ELSE IF d1.drop_detected
                   /\ check_reversal_signal(df, i)
                   /\ quantity > 0
                   /\ entry_debit(current_price, quantity) <= s.current_capital
           THEN <<[s EXCEPT !.current_capital =
                                @ - entry_debit(current_price, quantity)],
                  [d1 EXCEPT !.position =
                                 [entry_datetime |-> current_time,
                                  entry_price |-> current_price,
                                  quantity |-> quantity,
                                  buy_cost |-> buy_cost,
                                  max_profit |-> 0,
                                  max_loss |-> 0,
                                  hold_minutes |-> 0],
                             !.drop_detected = FALSE]>>
           ELSE <<s, d1>>
    ELSE
        LET actual_hold_minutes == current_time - position.entry_datetime
            p1 == [position EXCEPT !.hold_minutes = actual_hold_minutes]
            current_pnl == exit_pnl(position, current_price)
            p2 == [p1 EXCEPT !.max_profit = Max2(@, current_pnl),
                             !.max_loss = Min2(@, current_pnl)]
            reason == exit_decision(cfg, p2, current_price)
        IN IF min_hold_guard(actual_hold_minutes)
           THEN <<s, [d EXCEPT !.position = p1, !.skipped = TRUE]>>
           ELSE IF reason # ""
           THEN <<[s EXCEPT !.current_capital = @ + exit_credit(p2, current_price)],
                  [d EXCEPT !.daily_trades =
                                Append(@, IntradayTrade(day, p2, current_time,
                                                        current_price, reason)),
                            !.position = NoPosition,
                            !.looking_for_drop = TRUE]>>
           ELSE <<s, [d EXCEPT !.position = p2]>>

\* the opening run of a day: n one-minute bars from the open
OpeningRun(o, n) ==
    [k \in 1 .. n |-> [time |-> id_market_open + k - 1, open |-> o, close |-> o,
                       volume |-> IDBaseVolume]]

RECURSIVE IterateBars(_, _, _, _, _)
\* the loop of lines 303-471 over rows i0 .. Len(df) - 1 of df
IterateBars(s, d, day, df, i0) ==
    IF i0 >= Len(df) \/ d.pc # "loop" THEN <<s, d>>
    ELSE LET r == IterateBar(s, d, day, df[i0 + 1].time, df[i0 + 1].close, df, i0)
         IN IterateBars(r[1], r[2], day, df, i0 + 1)

\* simulate_trading_day, lines 296-300, and the loop over the opening run
ID_StartDay ==
    /\ engine = "intraday"
    /\ idrun.pc = "running"
    /\ idday.pc = "none"
    /\ idrun.days < MaxIntradayDays
    /\ \E o \in IDOpenPrices, n \in IDOpeningRuns :
        LET df == OpeningRun(o, n)
            r == IterateBars(id, [IDDayNew EXCEPT !.pc = "loop", !.df = df],
                             idrun.days, df, 0)
        IN /\ id' = r[1]
           /\ idday' = r[2]
    /\ UNCHANGED <<engine, rbvars, mcvars, idrun>>

\* the next bar of the day goes through the loop body
ID_Bar ==
    /\ engine = "intraday"
    /\ idday.pc = "loop"
    /\ idrun.bars < MaxIntradayBars
    /\ LET i == Len(idday.df)
           last == idday.df[i].time
       IN \E c \in IDPrices, v \in IDVolumes,
             t \in {last + g : g \in IDGaps} \cup IDLateTimes :
           LET bar == [time |-> t, open |-> c, close |-> c, volume |-> v]
               df == Append(idday.df, bar)
               r == IterateBar(id, [idday EXCEPT !.skipped = FALSE, !.df = df],
                               idrun.days, t, c, df, i)
           IN /\ t > last
              /\ t <= id_market_close
              /\ id' = r[1]
              /\ idday' = r[2]
    /\ idrun' = [idrun EXCEPT !.bars = @ + 1]
    /\ UNCHANGED <<engine, rbvars, mcvars>>

\* simulate_trading_day, lines 473-485, and run_backtest, lines 510-514
ID_EndDay ==
    /\ engine = "intraday"
    /\ idday.pc \in {"loop", "after_loop"}
    /\ idday.df # <<>>
    /\ id' = [id EXCEPT !.trades = @ \o idday.daily_trades]
    /\ idrun' = [idrun EXCEPT !.days = @ + 1,
                              !.total_pnl = @ + SumPnl(idday.daily_trades)]
    /\ idday' = IDDayNew
    /\ UNCHANGED <<engine, rbvars, mcvars>>

\* run_backtest, lines 527-533
ID_Finish ==
    /\ engine = "intraday"
    /\ idrun.pc = "running"
    /\ idday.pc = "none"
    /\ idrun' = [idrun EXCEPT !.pc = "done"]
    /\ UNCHANGED <<engine, rbvars, mcvars, id, idday>>

RECURSIVE consecutive(_, _, _, _)
\* generate_backtest_report, lines 589-602: the longest runs of profitable
\* trades (wins = TRUE) and of the other trades (wins = FALSE)
consecutive(trades, wins, current, longest) ==
    IF trades = <<>> THEN longest
    ELSE IF (Head(trades).pnl > 0) = wins
    THEN consecutive(Tail(trades), wins, current + 1, Max2(longest, current + 1))
    ELSE consecutive(Tail(trades), wins, 0, longest)

\* generate_backtest_report, lines 627-634: count and pnl per exit reason
exit_reasons(trades) ==
    [reason \in {trades[i].exit_reason : i \in 1 .. Len(trades)} |->
        LET of == SelectSeq(trades, LAMBDA t : t.exit_reason = reason)
        IN [count |-> Len(of), pnl |-> SumPnl(of)]]

\* generate_backtest_report: the counts, sums and extremes of the report; its
\* means and ratios are quotients of these.  Reads the trade log only.
generate_backtest_report(s, total_pnl, trading_days) ==
    IF s.trades = <<>>
    THEN [total_trades |-> 0, total_pnl |-> 0, max_profit |-> 0, max_loss |-> 0]
    ELSE [total_trades |-> Len(s.trades),
          total_pnl |-> total_pnl,
          max_profit |-> MaxPnl(s.trades),
          max_loss |-> MinPnl(s.trades),
          winning_trades |-> Len(Winning(s.trades)),
          losing_trades |-> Len(Losing(s.trades)),
          \* profit_loss_ratio, lines 579-584: abs(avg_win / avg_loss), or 0
          \* without a losing trade, in thousandths
          profit_loss_ratio |->
              IF Losing(s.trades) = <<>> \/ Winning(s.trades) = <<>> THEN 0
              ELSE (1000 * SumPnl(Winning(s.trades)) * Len(Losing(s.trades)))
                   \div (Len(Winning(s.trades)) * (0 - SumPnl(Losing(s.trades)))),
          exit_reasons |-> exit_reasons(s.trades),
          trading_days |-> trading_days,
          traded_days |-> Cardinality({s.trades[i].date : i \in 1 .. Len(s.trades)}),
          max_consecutive_wins |-> consecutive(s.trades, TRUE, 0, 0),
          max_consecutive_losses |-> consecutive(s.trades, FALSE, 0, 0)]

\* generate_backtest_report called on the strategy after a backtest, with the
\* arguments run_backtest passes at line 529
ID_Report ==
    /\ engine = "intraday"
    /\ idrun.pc = "done"
    /\ Len(idrun.reports) < MaxReports
    /\ idrun' = [idrun EXCEPT !.reports =
                     Append(@, generate_backtest_report(id, idrun.total_pnl, idrun.days))]
    /\ UNCHANGED <<engine, rbvars, mcvars, id, idday>>

\* bounds of the trade logs handed to the reporter: a finished backtest of
\* at most MaxLogLen days with one round trip each, entered at 97 or 95 and
\* left at 102 (take-profit), 97 (close of day) or 95 (stop-loss)
MaxLogLen == 3
IDLegs == {[entry |-> 97, exit |-> 102], [entry |-> 95, exit |-> 97],
           [entry |-> 97, exit |-> 95]}
IDLegSeqs == UNION {[1 .. n -> IDLegs] : n \in 0 .. MaxLogLen}

RECURSIVE IDReplayLegs(_, _, _)
\* the strategy after days of one round trip each: the entry of lines
\* 367-392 with the whole capital 11 minutes before the forced close, the
\* exit of lines 406-471 ten minutes later or the forced close of lines
\* 312-343 on the next bar, and the extension of the log at lines 510-514
IDReplayLegs(s, legs, day) ==
    IF legs = <<>> THEN s
    ELSE LET leg == Head(legs)
             quantity == calculate_position_size(s.current_capital, leg.entry)
             opened == [entry_datetime |-> id_force_close_time - 11,
                        entry_price |-> leg.entry,
                        quantity |-> quantity,
                        buy_cost |-> calculate_trading_cost(leg.entry, quantity, TRUE),
                        max_profit |-> 0, max_loss |-> 0, hold_minutes |-> 0]
             current_pnl == exit_pnl(opened, leg.exit)
             position == [opened EXCEPT !.hold_minutes = 10,
                                        !.max_profit = Max2(@, current_pnl),
                                        !.max_loss = Min2(@, current_pnl)]
             decided == exit_decision(s, position, leg.exit)
             reason == IF decided # "" THEN decided ELSE "force_close"
             time == IF decided # "" THEN id_force_close_time - 1
                     ELSE id_force_close_time
             trade == IntradayTrade(day, position, time, leg.exit, reason)
         IN IDReplayLegs(
                [s EXCEPT !.current_capital =
                              @ - entry_debit(leg.entry, quantity)
                                + exit_credit(position, leg.exit),
                          !.trades = Append(@, trade)],
                Tail(legs), day + 1)

NextIntraday ==
    \/ ID_StartBacktest \/ ID_EmptyDay \/ ID_StartDay \/ ID_Bar \/ ID_EndDay
    \/ ID_Finish \/ ID_Report

(***************************************************************************)
(*                     Mid-cap breakout (daily) engine                     *)
(* Prices and money in cents, returns and amplitude per 1000, surge        *)
(* multiples in tenths, RSI in points, signal strength multiplied by 7000, *)
(* confirmation scores in tenths, dates in days (day 0 is a Monday).       *)
(***************************************************************************)

\* MidCapBreakoutStrategy.__init__, and run_backtest's initial_capital
mc_volume_surge_threshold == 50
mc_min_price_rise == 100
mc_max_price_rise == 300
mc_stop_loss_percent == 50
mc_take_profit_percent == 500
mc_max_positions == 3
mc_max_short_positions == 3
mc_short_volume_surge_threshold == 40
mc_min_price_fall == 80
mc_max_price_fall == 250
mc_short_stop_loss_percent == 80
mc_short_take_profit_percent == 150
mc_initial_capital == 10000000

\* a value pandas leaves undefined (NaN): every comparison with it is false
NaN == 0 - 999999
isna(x) == x = NaN
lt(x, y) == x # NaN /\ x < y
gt(x, y) == x # NaN /\ x > y
ge(x, y) == x # NaN /\ x >= y
le(x, y) == x # NaN /\ x <= y

\* the strength scale: 7 (volume weight) * 1000 (per-mille terms)
StrengthScale == 7 * 1000

\* seq.tail(k)
LastK(seq, k) == SubSeq(seq, Max2(1, Len(seq) - k + 1), Len(seq))
CountIf(seq, P(_)) == Cardinality({i \in 1 .. Len(seq) : P(seq[i])})
AllOf(seq, P(_)) == \A i \in 1 .. Len(seq) : P(seq[i])

NoSignal == [ok |-> FALSE, strength |-> 0]

\* what the four check functions read of a symbol's frame at current_date:
\*   present (current_date in df.index), rows (len(df.loc[:current_date])),
\*   the latest row's columns, changes (price_change.tail(5)), high20, high10,
\*   low10 (max/min of high/low over the tail), volume_std, volume_mean (tail(10))

\* variant: every day is taken to have a bar
bar_present_always(x) == TRUE

\* current_date in df.index
bar_present(x) == x.present

\* calculate_indicators, lines 464-465: a frame of fewer than 5 rows is
\* returned without the indicator columns.  len_df is the length of the whole
\* frame, the rows after the current date included.
mc_indicator_columns(len_df) == len_df >= 5

\* check_breakout_signal ends in a KeyError when it reaches the read of
\* volume_surge (line 507) on a frame without indicator columns; a day
\* without a bar or with fewer than 10 rows up to the current date (x.rows)
\* returns before any read (lines 500-501)
check_breakout_signal_raises(x, len_df) ==
    bar_present(x) /\ x.rows >= 10 /\ ~mc_indicator_columns(len_df)

\* variant: the weighted sum is not capped
breakout_strength_uncapped(volume_surge, price_change, amplitude, confirmation_score) ==
    100 * volume_surge + 35 * price_change + 14 * amplitude
    + 700 * confirmation_score

\* lines 592-597: min(1.0, volume_surge / 7.0 + price_change * 5
\* + amplitude * 2 + confirmation_score), multiplied by StrengthScale
breakout_strength(volume_surge, price_change, amplitude, confirmation_score) ==
    Min2(StrengthScale,
         100 * volume_surge + 35 * price_change + 14 * amplitude
         + 700 * confirmation_score)

check_breakout_signal(x) ==
    IF ~bar_present(x) \/ x.rows < 10 THEN NoSignal
    ELSE IF isna(x.volume_surge) \/ x.volume_surge < mc_volume_surge_threshold
    THEN NoSignal
    ELSE IF \/ isna(x.price_change)
            \/ x.price_change < mc_min_price_rise
            \/ x.price_change > mc_max_price_rise
    THEN NoSignal
    ELSE IF isna(x.amplitude) \/ x.amplitude < 60 THEN NoSignal
    ELSE IF isna(x.ma5) \/ x.close <= x.ma5 THEN NoSignal
    ELSE
        LET up_days == CountIf(LastK(x.changes, 5), LAMBDA c : gt(c, 20))
            confirmation_score ==
                (IF ~isna(x.ma10)
                 THEN (IF x.close > x.ma5 /\ x.ma5 > x.ma10 THEN 5
                       ELSE IF x.ma5 > x.ma10 THEN 3 ELSE 0)
                 ELSE 0)
              + (IF ~isna(x.price_change_3d)
                 THEN (IF x.price_change_3d > 150 THEN 5
                       ELSE IF x.price_change_3d > 80 THEN 3 ELSE 0)
                 ELSE 0)
              + (IF x.rows >= 5
                 THEN (IF up_days >= 4 THEN 4 ELSE IF up_days >= 3 THEN 2 ELSE 0)
                 ELSE 0)
              + (IF ~isna(x.turnover_surge)
                    /\ 10 * x.turnover_surge > 12 * mc_volume_surge_threshold
                 THEN 4 ELSE 0)
              + (IF x.rows >= 20 /\ 100 * x.close >= 98 * x.high20 THEN 4 ELSE 0)
              + (IF x.rows >= 10 /\ 2 * x.volume_std > x.volume_mean THEN 2 ELSE 0)
              + (IF ~isna(x.rsi)
                 THEN (IF 50 < x.rsi /\ x.rsi < 80 THEN 3
                       ELSE IF x.rsi >= 80 THEN 1 ELSE 0)
                 ELSE 0)
            signal_strength ==
                breakout_strength(x.volume_surge, x.price_change, x.amplitude,
                                  confirmation_score)
        IN IF 100 * signal_strength > 65 * StrengthScale
           THEN [ok |-> TRUE, strength |-> signal_strength]
           ELSE NoSignal

check_short_signal(enable_short, x) ==
    IF ~enable_short \/ ~bar_present(x) \/ x.rows < 10 THEN NoSignal
    ELSE IF isna(x.volume_surge) \/ x.volume_surge < mc_short_volume_surge_threshold
    THEN NoSignal
    ELSE IF \/ isna(x.price_change)
            \/ x.price_change > -mc_min_price_fall
            \/ x.price_change < -mc_max_price_fall
    THEN NoSignal
    ELSE IF isna(x.amplitude) \/ x.amplitude < 80 THEN NoSignal
    ELSE IF isna(x.ma5) \/ x.close >= x.ma5 THEN NoSignal
    ELSE
        LET negative_days == CountIf(LastK(x.changes, 3), LAMBDA c : lt(c, -20))
            confirmation_score ==
                (IF ~isna(x.ma10) /\ x.close < x.ma10 THEN 2 ELSE 0)
              + (IF ~isna(x.ma3) /\ x.close < x.ma3 THEN 1 ELSE 0)
              + (IF ~isna(x.volume_ma5) /\ x.volume > 2 * x.volume_ma5 THEN 2 ELSE 0)
              + (IF ~isna(x.rsi)
                 THEN (IF x.rsi < 30 THEN 1
                       ELSE IF 30 <= x.rsi /\ x.rsi < 50 THEN 2 ELSE 0)
                 ELSE 0)
              + (IF x.rows >= 20
                 THEN (IF 10 * x.close > 8 * x.high20 THEN 2
                       ELSE IF 10 * x.close > 6 * x.high20 THEN 1 ELSE 0)
                 ELSE 0)
              + (IF x.rows >= 3 /\ negative_days >= 2 THEN 1 ELSE 0)
        IN IF confirmation_score > 5
           THEN [ok |-> TRUE, strength |-> 700 * confirmation_score]
           ELSE NoSignal

\* current_gain compared with permille / 1000, for a long position
gain_ge(current_price, entry_price, permille) ==
    (current_price - entry_price) * 1000 >= permille * entry_price
gain_gt(current_price, entry_price, permille) ==
    (current_price - entry_price) * 1000 > permille * entry_price
\* variant: the return is never below a floor
gain_lt_never(current_price, entry_price, permille) == FALSE
gain_lt(current_price, entry_price, permille) ==
    (current_price - entry_price) * 1000 < permille * entry_price

\* variant: the stop-loss level is never reached
long_stop_loss_never(cfg, current_price, entry_price) == FALSE

\* lines 709-713: current_price <= entry_price * (1 - stop_loss_percent)
long_stop_loss_hit(cfg, current_price, entry_price) ==
    1000 * current_price <= entry_price * (1000 - cfg.stop_loss_percent)
\* lines 715-719: current_price >= entry_price * (1 + take_profit_percent)
long_take_profit_hit(cfg, current_price, entry_price) ==
    1000 * current_price >= entry_price * (1000 + cfg.take_profit_percent)

\* check_exit_signal: the reason of the exit, "" for none
check_exit_signal(cfg, x, entry_price, hold_days) ==
    LET current_price == x.close
        gain(op(_, _, _), permille) == op(current_price, entry_price, permille)
        tail2 == LastK(x.changes, 2)
        tail3 == LastK(x.changes, 3)
        tail5 == LastK(x.changes, 5)
    IN
    IF ~bar_present(x) THEN ""
    ELSE IF long_stop_loss_hit(cfg, current_price, entry_price) THEN "stop_loss"
    ELSE IF long_take_profit_hit(cfg, current_price, entry_price) THEN "take_profit"
    ELSE IF /\ 1 <= hold_days /\ hold_days <= 3 /\ gain(gain_ge, 150)
            /\ lt(x.price_change, -80)
    THEN "short_term_profit"
    ELSE IF /\ 4 <= hold_days /\ hold_days <= 10 /\ gain(gain_ge, 100)
            /\ lt(x.price_change, -100)
    THEN "mid_term_profit"
    ELSE IF /\ 4 <= hold_days /\ hold_days <= 10 /\ gain(gain_ge, 100)
            /\ x.rows >= 3 /\ AllOf(tail3, LAMBDA c : lt(c, -50))
    THEN "trend_weakening"
    ELSE IF /\ hold_days >= 11 /\ gain(gain_ge, 50) /\ x.rows >= 10
            /\ 100 * (x.high10 - current_price) > 15 * x.high10
    THEN "trailing_profit"
    ELSE IF /\ x.rows >= 3
            /\ lt(x.volume_surge, 7) /\ lt(x.price_change, -40)
    THEN "volume_price_divergence"
    ELSE IF /\ x.rows >= 3
            /\ ~isna(x.ma5) /\ current_price < x.ma5
            /\ gt(x.volume_surge, 15) /\ lt(x.price_change, -40)
    THEN "below_ma5"
    ELSE IF x.rows >= 3 /\ AllOf(tail2, LAMBDA c : lt(c, -20))
    THEN "consecutive_declines"
    ELSE IF /\ gain(gain_gt, 100) /\ hold_days >= 5
            /\ AllOf(tail5, LAMBDA c : c # NaN /\ Abs(c) < 20)
    THEN "stagnation"
    ELSE IF gain(gain_gt, 100) /\ gt(x.rsi, 90)
    THEN "rsi_overheated"
    ELSE IF /\ gain(gain_lt, -20)
            /\ gt(x.volume_surge, 20) /\ lt(x.price_change, -30)
    THEN "heavy_volume_decline"
    ELSE IF /\ gain(gain_lt, -20) /\ x.rows >= 3
            /\ CountIf(tail3, LAMBDA c : lt(c, -20)) >= 2
    THEN "continued_decline"
    ELSE IF hold_days >= 20 /\ gain(gain_lt, -30)
    THEN "time_stop"
    ELSE IF hold_days >= 30 /\ gain(gain_lt, 50)
    THEN "underperformance"
    ELSE IF x.rows >= 3 /\ CountIf(tail3, LAMBDA c : lt(c, -40)) >= 2
    THEN "market_deterioration"
    ELSE ""

\* current_gain of a short position compared with permille / 1000
short_gain_ge(current_price, entry_price, permille) ==
    (entry_price - current_price) * 1000 >= permille * entry_price
short_gain_gt(current_price, entry_price, permille) ==
    (entry_price - current_price) * 1000 > permille * entry_price
short_gain_lt(current_price, entry_price, permille) ==
    (entry_price - current_price) * 1000 < permille * entry_price

\* lines 820-822: current_gain < -short_stop_loss_percent
short_stop_loss_hit(cfg, current_price, entry_price) ==
    short_gain_lt(current_price, entry_price, -cfg.short_stop_loss_percent)
\* lines 824-826: current_gain >= short_take_profit_percent
short_take_profit_hit(cfg, current_price, entry_price) ==
    short_gain_ge(current_price, entry_price, cfg.short_take_profit_percent)

\* check_short_exit_signal: the reason of the exit, "" for none
check_short_exit_signal(cfg, x, entry_price, hold_days) ==
    LET current_price == x.close
        gain(op(_, _, _), permille) == op(current_price, entry_price, permille)
        tail3 == LastK(x.changes, 3)
    IN
    IF ~bar_present(x) THEN ""
    ELSE IF short_stop_loss_hit(cfg, current_price, entry_price) THEN "short_stop_loss"
    ELSE IF short_take_profit_hit(cfg, current_price, entry_price)
    THEN "short_take_profit"
    ELSE IF /\ 1 <= hold_days /\ hold_days <= 3 /\ gain(short_gain_ge, 80)
            /\ gt(x.price_change, 60)
    THEN "short_term_cover"
    ELSE IF /\ 4 <= hold_days /\ hold_days <= 10 /\ gain(short_gain_ge, 50)
            /\ gt(x.price_change, 80)
    THEN "mid_term_cover"
    ELSE IF /\ 4 <= hold_days /\ hold_days <= 10 /\ gain(short_gain_ge, 50)
            /\ x.rows >= 3 /\ AllOf(tail3, LAMBDA c : gt(c, 30))
    THEN "trend_reversal"
    ELSE IF /\ hold_days >= 11 /\ gain(short_gain_ge, 30) /\ x.rows >= 10
            /\ 100 * (current_price - x.low10) > 12 * x.low10
    THEN "bounce_cover"
    ELSE IF gain(short_gain_gt, 0) /\ ~isna(x.ma5) /\ current_price > x.ma5
    THEN "above_ma5"
    ELSE IF gain(short_gain_gt, 0) /\ gt(x.rsi, 50)
    THEN "rsi_recovering"
    ELSE IF /\ gain(short_gain_lt, -20)
            /\ lt(x.volume_surge, 8) /\ gt(x.price_change, 30)
    THEN "low_volume_rise"
    ELSE IF /\ gain(short_gain_lt, -20) /\ x.rows >= 3
            /\ CountIf(tail3, LAMBDA c : gt(c, 20)) >= 2
    THEN "continued_rise"
    ELSE IF hold_days >= 15 /\ gain(short_gain_lt, -20)
    THEN "time_stop"
    ELSE IF hold_days >= 20 /\ gain(short_gain_lt, 30)
    THEN "underperformance"
    ELSE IF x.rows >= 3 /\ CountIf(tail3, LAMBDA c : gt(c, 30)) >= 2
    THEN "market_strengthening"
    ELSE ""

\* bounds of the replayed data
MaxDailyDays == 3
\* all_data.keys(), in the order the universe was loaded
Universe == <<"0700", "0005", "0941", "0388">>
Symbols == {Universe[i] : i \in 1 .. Len(Universe)}

\* calculate_indicators, lines 474 and 479: volume / volume.rolling(10).mean()
\* at the latest row, in tenths.  volumes holds the eleven latest volumes, the
\* current bar last; the rolling window is the ten latest of them.
mc_volume_surge(volumes) ==
    (100 * volumes[11])
    \div (volumes[2] + volumes[3] + volumes[4] + volumes[5] + volumes[6]
          + volumes[7] + volumes[8] + volumes[9] + volumes[10] + volumes[11])

\* the frames a symbol can show on a day
Quiet(c) ==
    [present |-> TRUE, rows |-> 30, close |-> c,
     volumes |-> [k \in 1 .. 11 |-> 1000],
     volume_surge |-> mc_volume_surge([k \in 1 .. 11 |-> 1000]),
     turnover_surge |-> 10, price_change |-> 0, price_change_3d |-> 0,
     amplitude |-> 10, ma3 |-> c, ma5 |-> c, ma10 |-> c, volume |-> 1000,
     volume_ma5 |-> 1000, rsi |-> 50, changes |-> <<0, 0, 0, 0, 0>>,
     high20 |-> c + 100, high10 |-> c + 100, low10 |-> c - 100,
     volume_std |-> 0, volume_mean |-> 1000]
\* the volumes behind the frames below
BreakoutVolumes == <<400, 400, 400, 400, 400, 400, 1000, 1000, 1000, 1000, 9000>>
FadedVolumes == <<400, 400, 400, 400, 400, 1000, 1000, 1000, 1000, 9000, 3650>>
PlungeVolumes == <<600, 600, 600, 600, 600, 600, 1000, 1000, 1000, 1000, 7000>>
Frames ==
    [none |-> [Quiet(1000) EXCEPT !.present = FALSE],
     quiet |-> Quiet(1000),
     firm |-> Quiet(1100),
     weak |-> Quiet(900),
     breakout |-> [Quiet(1100) EXCEPT !.volumes = BreakoutVolumes,
                                      !.volume_surge = mc_volume_surge(BreakoutVolumes),
                                      !.turnover_surge = 65,
                                      !.price_change = 100, !.price_change_3d = 100,
                                      !.amplitude = 80, !.ma3 = 1030, !.ma5 = 1020,
                                      !.ma10 = 1010, !.volume = 9000,
                                      !.volume_ma5 = 2600, !.rsi = 70,
                                      !.changes = <<0, 0, 0, 0, 100>>,
                                      !.high20 = 1110, !.high10 = 1110,
                                      !.volume_std = 2652, !.volume_mean = 1500],
     \* the day after a breakout: the close is kept, the oldest bar, which
     \* held the 10-day high, has left the 10-day window
     faded |-> [Quiet(1100) EXCEPT !.volumes = FadedVolumes,
                                   !.volume_surge = mc_volume_surge(FadedVolumes),
                                   !.volume = 3650,
                                   !.ma3 = 1067, !.ma5 = 1040, !.ma10 = 1020,
                                   !.volume_ma5 = 3130, !.rsi = 70,
                                   !.changes = <<0, 0, 0, 100, 0>>,
                                   !.price_change_3d = 100,
                                   !.high20 = 1110, !.high10 = 1100,
                                   !.low10 = 990,
                                   !.volume_std = 2701, !.volume_mean = 1825],
     plunge |-> [Quiet(900) EXCEPT !.volumes = PlungeVolumes,
                                   !.volume_surge = mc_volume_surge(PlungeVolumes),
                                   !.turnover_surge = 50,
                                   !.price_change = -100, !.price_change_3d = -120,
                                   !.amplitude = 110, !.ma3 = 970, !.ma5 = 980,
                                   !.ma10 = 990, !.volume = 7000,
                                   !.volume_ma5 = 2200, !.rsi = 35,
                                   !.changes = <<0, 0, 0, -30, -100>>,
                                   !.high20 = 1010, !.high10 = 1010, !.low10 = 890,
                                   !.volume_std = 1978, !.volume_mean = 1400]]
FrameKinds == {"none", "quiet", "firm", "weak", "breakout", "faded", "plunge"}
\* a day of the data: every symbol shows the same kind of frame, or one
\* symbol shows a frame and the others have no bar
DayFrames ==
    {[sym \in Symbols |-> Frames[k]] : k \in FrameKinds}
    \cup {[sym \in Symbols |-> IF sym = one THEN Frames[k] ELSE Frames["none"]] :
             one \in Symbols, k \in FrameKinds \ {"none"}}
\* the configurations: the defaults with and without short selling, and the
\* long stop-loss and take-profit thresholds at zero
MCConfigs ==
    {[enable_short |-> e, stop_loss_percent |-> mc_stop_loss_percent,
      take_profit_percent |-> mc_take_profit_percent,
      short_stop_loss_percent |-> mc_short_stop_loss_percent,
      short_take_profit_percent |-> mc_short_take_profit_percent] :
         e \in BOOLEAN}
    \cup {[enable_short |-> TRUE, stop_loss_percent |-> 0,
           take_profit_percent |-> 0,
           short_stop_loss_percent |-> mc_short_stop_loss_percent,
           short_take_profit_percent |-> mc_short_take_profit_percent]}

\* the Trade dataclass of small_cap_breakout.py
MCTrade(date, symbol, action, price, quantity, reason, position_type, pnl, hold_days) ==
    [date |-> date, symbol |-> symbol, action |-> action, price |-> price,
     quantity |-> quantity, amount |-> price * quantity, reason |-> reason,
     position_type |-> position_type, pnl |-> pnl, hold_days |-> hold_days]

\* positions and short_positions are dicts: sequences in insertion order
Held(positions, symbol) == \E i \in 1 .. Len(positions) : positions[i].symbol = symbol
Without(positions, symbol) == SelectSeq(positions, LAMBDA p : p.symbol # symbol)
PositionOf(positions, symbol) ==
    positions[CHOOSE i \in 1 .. Len(positions) : positions[i].symbol = symbol]

\* lines 940-946: the price update and the value of the long positions
RECURSIVE long_positions_value(_, _)
long_positions_value(positions, frames) ==
    IF positions = <<>> THEN 0
    ELSE LET p == Head(positions)
         IN (IF frames[p.symbol].present
             THEN frames[p.symbol].close * p.quantity ELSE 0)
            + long_positions_value(Tail(positions), frames)
\* lines 948-954: margin plus floating pnl of the short positions
RECURSIVE short_positions_value(_, _)
short_positions_value(positions, frames) ==
    IF positions = <<>> THEN 0
    ELSE LET p == Head(positions)
         IN (IF frames[p.symbol].present
             THEN p.entry_price * p.quantity
                  + (p.entry_price - frames[p.symbol].close) * p.quantity
             ELSE 0)
            + short_positions_value(Tail(positions), frames)
update_prices(positions, frames) ==
    [i \in 1 .. Len(positions) |->
        IF frames[positions[i].symbol].present
        THEN [positions[i] EXCEPT !.current_price = frames[positions[i].symbol].close]
        ELSE positions[i]]

\* cash credited by a SELL: sell_amount
sell_credit(position, sell_price) == sell_price * position.quantity
\* variant: a COVER credits the pnl only, the margin is not returned
cover_credit_pnl_only(position, cover_price) ==
    (position.entry_price - cover_price) * position.quantity

\* cash credited by a COVER: pnl + margin
cover_credit(position, cover_price) ==
    (position.entry_price - cover_price) * position.quantity
    + position.entry_price * position.quantity
\* cash debited by a BUY or a SHORT: the notional
entry_amount(price, quantity) == price * quantity
\* variant: the size of a purchase is not rounded down to whole lots
long_quantity_unrounded(current_capital, price) ==
    TruncDiv(current_capital * 8, 100 * price)
\* int(current_capital * 0.08 / price / 100) * 100
long_quantity(current_capital, price) ==
    TruncDiv(current_capital * 8, 100 * price * 100) * 100
\* int(current_capital * 0.05 / price / 100) * 100
short_quantity(current_capital, price) ==
    TruncDiv(current_capital * 5, 100 * price * 100) * 100

\* lines 964-991: one long position is sold when check_exit_signal says so
sell_position(st, symbol, frames, cfg, date) ==
    LET position == PositionOf(st.positions, symbol)
        reason == check_exit_signal(cfg, frames[symbol], position.entry_price,
                                    date - position.entry_date)
        sell_price == position.current_price
        pnl == (sell_price - position.entry_price) * position.quantity
    IN IF reason = "" THEN st
       ELSE [st EXCEPT
                !.current_capital = @ + sell_credit(position, sell_price),
                !.trades = Append(@, MCTrade(date, symbol, "SELL", sell_price,
                                             position.quantity, reason, "LONG",
                                             pnl, date - position.entry_date)),
                !.positions = Without(@, symbol)]

\* lines 956-993: the exits of the long positions, over list(positions.items())
RECURSIVE sell_positions(_, _, _, _, _)
sell_positions(st, pending, frames, cfg, date) ==
    IF pending = <<>> THEN st
    ELSE CHOOSE out \in {sell_positions(
                            sell_position(v, Head(pending).symbol, frames, cfg, date),
                            Tail(pending), frames, cfg, date) : v \in {st}} : TRUE

\* lines 1002-1030: one short position is covered when check_short_exit_signal says so
cover_position(st, symbol, frames, cfg, date) ==
    LET position == PositionOf(st.short_positions, symbol)
        reason == check_short_exit_signal(cfg, frames[symbol], position.entry_price,
                                          date - position.entry_date)
        cover_price == position.current_price
        pnl == (position.entry_price - cover_price) * position.quantity
    IN IF reason = "" THEN st
       ELSE [st EXCEPT
                !.current_capital = @ + cover_credit(position, cover_price),
                !.trades = Append(@, MCTrade(date, symbol, "COVER", cover_price,
                                             position.quantity, reason, "SHORT",
                                             pnl, date - position.entry_date)),
                !.short_positions = Without(@, symbol)]

\* lines 995-1032: the exits of the short positions
RECURSIVE cover_positions(_, _, _, _, _)
cover_positions(st, pending, frames, cfg, date) ==
    IF pending = <<>> THEN st
    ELSE CHOOSE out \in {cover_positions(
                            cover_position(v, Head(pending).symbol, frames, cfg, date),
                            Tail(pending), frames, cfg, date) : v \in {st}} : TRUE

\* lines 1038-1045: the candidates, in the order of all_data
buy_candidates(positions, frames) ==
    LET all == [i \in 1 .. Len(Universe) |->
                   [symbol |-> Universe[i],
                    price |-> frames[Universe[i]].close,
                    signal |-> check_breakout_signal(frames[Universe[i]])]]
    IN SelectSeq(all, LAMBDA c : ~Held(positions, c.symbol) /\ c.signal.ok)

\* line 1048: sort(key = strength, reverse = True), a stable sort
RECURSIVE sort_by_strength(_)
sort_by_strength(cands) ==
    IF cands = <<>> THEN <<>>
    ELSE LET best == CHOOSE i \in 1 .. Len(cands) :
                        /\ \A j \in 1 .. Len(cands) :
                               cands[j].signal.strength <= cands[i].signal.strength
                        /\ \A j \in 1 .. i - 1 :
                               cands[j].signal.strength < cands[i].signal.strength
         IN <<cands[best]>>
            \o sort_by_strength(SubSeq(cands, 1, best - 1)
                                \o SubSeq(cands, best + 1, Len(cands)))

\* line 1051: buy_candidates[:3]
first_three(cands) == SubSeq(cands, 1, Min2(3, Len(cands)))

\* variant: no capacity check before a purchase
capacity_unchecked(positions) == FALSE

\* line 1052: the capacity check made before each purchase
capacity_reached(positions) == Len(positions) >= mc_max_positions

\* lines 1055-1081: one purchase
buy_position(st, c, date) ==
    LET quantity == long_quantity(st.current_capital, c.price)
    IN IF quantity > 0
       THEN [st EXCEPT
                !.current_capital = @ - entry_amount(c.price, quantity),
                !.positions = Append(@, [symbol |-> c.symbol,
                                         entry_price |-> c.price,
                                         entry_date |-> date,
                                         quantity |-> quantity,
                                         current_price |-> c.price]),
                !.trades = Append(@, MCTrade(date, c.symbol, "BUY", c.price,
                                             quantity, "breakout", "LONG", 0, 0))]
       ELSE st

\* lines 1051-1084: the purchases, over buy_candidates[:3]
RECURSIVE buy_positions(_, _, _)
buy_positions(st, cands, date) ==
    CHOOSE out \in {IF cands = <<>> \/ capacity_reached(v.positions) THEN v
                    ELSE buy_positions(buy_position(v, Head(cands), date),
                                       Tail(cands), date) : v \in {st}} : TRUE

\* lines 1090-1118: one short entry
short_position(st, symbol, frames, cfg, date) ==
    LET price == frames[symbol].close
        quantity == short_quantity(st.current_capital, price)
    IN IF /\ ~Held(st.short_positions, symbol)
          /\ check_short_signal(cfg.enable_short, frames[symbol]).ok
          /\ quantity > 0
       THEN [st EXCEPT
                !.current_capital = @ - entry_amount(price, quantity),
                !.short_positions = Append(@, [symbol |-> symbol,
                                               entry_price |-> price,
                                               entry_date |-> date,
                                               quantity |-> quantity,
                                               current_price |-> price]),
                !.trades = Append(@, MCTrade(date, symbol, "SHORT", price,
                                             quantity, "short_signal", "SHORT", 0, 0))]
       ELSE st

\* lines 1088-1121: the short entries, over all_data.keys()
RECURSIVE short_positions_open(_, _, _, _, _)
short_positions_open(st, symbols, frames, cfg, date) ==
    IF symbols = <<>> THEN st
    ELSE CHOOSE out \in {short_positions_open(
                            short_position(v, Head(symbols), frames, cfg, date),
                            Tail(symbols), frames, cfg, date) : v \in {st}} : TRUE

\* lines 940-954: prices refreshed, the day counted
mark_positions(st, frames) ==
    [st EXCEPT !.positions = update_prices(@, frames),
               !.short_positions = update_prices(@, frames),
               !.trading_days = @ + 1]

\* lines 956-1032: the exits of the day
exit_positions(st, frames, cfg, date) ==
    CHOOSE out \in {cover_positions(v, v.short_positions, frames, cfg, date) :
                       v \in {sell_positions(st, st.positions, frames, cfg, date)}} : TRUE

\* lines 1034-1084: the long entries of the day
enter_longs(st, frames, date) ==
    IF Len(st.positions) < mc_max_positions
    THEN buy_positions(st,
                       first_three(sort_by_strength(buy_candidates(st.positions, frames))),
                       date)
    ELSE st

\* lines 1086-1121: the short entries of the day
enter_shorts(st, frames, cfg, date) ==
    IF cfg.enable_short /\ Len(st.short_positions) < mc_max_short_positions
    THEN short_positions_open(st, Universe, frames, cfg, date)
    ELSE st

\* lines 1123-1131: the record of the day
daily_record(st, total_position_value, date) ==
    [date |-> date,
     capital |-> st.current_capital,
     positions_value |-> total_position_value,
     total_value |-> st.current_capital + total_position_value,
     positions_count |-> Len(st.positions) + Len(st.short_positions)]

\* variant: the entries of the day are made before its exits
process_day_entries_first(st, frames, cfg, date) ==
    LET total_position_value ==
            long_positions_value(st.positions, frames)
            + short_positions_value(st.short_positions, frames)
    IN CHOOSE out \in
           {[v4 EXCEPT !.daily_portfolio =
                           Append(@, daily_record(v4, total_position_value, date))] :
               v4 \in {exit_positions(v3, frames, cfg, date) :
                   v3 \in {enter_shorts(v2, frames, cfg, date) :
                       v2 \in {enter_longs(v1, frames, date) :
                           v1 \in {mark_positions(st, frames)}}}}} : TRUE

\* the body of the while loop for one working day, lines 938-1131
process_day(st, frames, cfg, date) ==
    LET total_position_value ==
            long_positions_value(st.positions, frames)
            + short_positions_value(st.short_positions, frames)
    IN CHOOSE out \in
           {[v4 EXCEPT !.daily_portfolio =
                           Append(@, daily_record(v4, total_position_value, date))] :
               v4 \in {enter_shorts(v3, frames, cfg, date) :
                   v3 \in {enter_longs(v2, frames, date) :
                       v2 \in {exit_positions(v1, frames, cfg, date) :
                           v1 \in {mark_positions(st, frames)}}}}} : TRUE

\* MidCapBreakoutStrategy.__init__ and the configuration of the run
MCNew(cfg) ==
    [cfg |-> cfg, trades |-> <<>>, positions |-> <<>>, short_positions |-> <<>>,
     daily_portfolio |-> <<>>, current_capital |-> 0, trading_days |-> 0]

\* the initial_capital argument of run_backtest: the capital of the main
\* program, none, and a negative one
MCCapitals == {mc_initial_capital, 0, 0 - mc_initial_capital}

MCRunNew ==
    [pc |-> "idle", date |-> 0, frames |-> [sym \in Symbols |-> Frames["none"]],
     initial_capital |-> mc_initial_capital, reports |-> <<>>]

\* run_backtest without data, lines 921-923
MC_NoData ==
    /\ engine = "daily"
    /\ mcrun.pc = "idle"
    /\ mcrun' = [mcrun EXCEPT !.pc = "done"]
    /\ UNCHANGED <<engine, rbvars, idvars, mc>>

\* run_backtest, lines 925-934
MC_Start ==
    /\ engine = "daily"
    /\ mcrun.pc = "idle"
    /\ \E initial_capital_ \in MCCapitals :
           /\ mc' = [mc EXCEPT !.current_capital = initial_capital_,
                               !.positions = <<>>, !.short_positions = <<>>,
                               !.trades = <<>>, !.daily_portfolio = <<>>,
                               !.trading_days = 0]
           /\ mcrun' = [mcrun EXCEPT !.pc = "replay",
                                     !.initial_capital = initial_capital_]
    /\ UNCHANGED <<engine, rbvars, idvars>>

\* the next working day of the window; days 5 and 6 of a week are skipped
MC_Day ==
    /\ engine = "daily"
    /\ mcrun.pc = "replay"
    /\ mc.trading_days < MaxDailyDays
    /\ \E frames \in DayFrames :
        LET date == IF mcrun.date % 7 >= 5 THEN mcrun.date + (7 - (mcrun.date % 7))
                    ELSE mcrun.date
        IN /\ mc' = process_day(mc, frames, mc.cfg, date)
           /\ mcrun' = [mcrun EXCEPT !.date = date + 1, !.frames = frames]
    /\ UNCHANGED <<engine, rbvars, idvars>>

\* run_backtest, lines 1138-1147: the replay window is over
MC_Finish ==
    /\ engine = "daily"
    /\ mcrun.pc = "replay"
    /\ mc.trading_days > 0
    /\ mcrun' = [mcrun EXCEPT !.pc = "done"]
    /\ UNCHANGED <<engine, rbvars, idvars, mc>>

RECURSIVE final_long_value(_)
\* run_backtest, lines 1138-1140
final_long_value(positions) ==
    IF positions = <<>> THEN 0
    ELSE Head(positions).current_price * Head(positions).quantity
         + final_long_value(Tail(positions))

RECURSIVE final_short_value(_)
\* run_backtest, lines 1141-1145
final_short_value(short_positions) ==
    IF short_positions = <<>> THEN 0
    ELSE LET position == Head(short_positions)
             short_pnl_now == (position.entry_price - position.current_price)
                              * position.quantity
         IN position.entry_price * position.quantity + short_pnl_now
            + final_short_value(Tail(short_positions))

final_value(s) ==
    s.current_capital + final_long_value(s.positions)
    + final_short_value(s.short_positions)

\* the highest total_value of the daily snapshots, lines 1181-1188
peak_value(daily_portfolio) ==
    CHOOSE m \in {daily_portfolio[i].total_value : i \in 1 .. Len(daily_portfolio)} :
        \A i \in 1 .. Len(daily_portfolio) : daily_portfolio[i].total_value <= m

\* generate_report: the counts and sums of the report; its percentages are
\* quotients of these.  Reads the trade log, the snapshots and the positions.
mc_generate_report(s, initial_capital_, final_value_, trading_days) ==
    LET completed_trades == SelectSeq(s.trades, LAMBDA t : t.action \in {"SELL", "COVER"})
        opened == SelectSeq(s.trades, LAMBDA t : t.action \in {"BUY", "SHORT"})
    IN [initial_capital |-> initial_capital_,
        final_value |-> final_value_,
        peak_value |-> peak_value(s.daily_portfolio),
        total_trades |-> Len(opened),
        completed_trades |-> Len(completed_trades),
        winning_trades |-> Len(Winning(completed_trades)),
        losing_trades |-> Len(SelectSeq(completed_trades, LAMBDA t : t.pnl <= 0)),
        active_positions |-> Len(s.positions) + Len(s.short_positions),
        trading_days |-> trading_days,
        stock_universe_size |-> Len(Universe)]

\* generate_report called on the strategy after a backtest, with the
\* arguments run_backtest passes at line 1147; the division by
\* initial_capital at line 1151 raises when it is zero
MC_Report ==
    /\ engine = "daily"
    /\ mcrun.pc = "done"
    /\ mc.trading_days > 0
    /\ mcrun.initial_capital # 0
    /\ Len(mcrun.reports) < MaxReports
    /\ mcrun' = [mcrun EXCEPT !.reports =
                     Append(@, mc_generate_report(mc, mcrun.initial_capital,
                                                  final_value(mc), mc.trading_days))]
    /\ UNCHANGED <<engine, rbvars, idvars, mc>>

NextDaily == MC_NoData \/ MC_Start \/ MC_Day \/ MC_Finish \/ MC_Report

Init ==
    /\ engine \in {"rbreaker", "intraday", "daily"}
    /\ rb = RBNew
    /\ rbrun = RBRunNew
    /\ \E cfg \in IDConfigs : id = IDNew(cfg)
    /\ idrun = IDRunNew
    /\ idday = IDDayNew
    /\ \E cfg \in MCConfigs : mc = MCNew(cfg)
    /\ mcrun = MCRunNew

IDDefault == CHOOSE cfg \in IDConfigs : cfg.stop_loss_percent = id_stop_loss_percent
MCDefault == CHOOSE cfg \in MCConfigs :
                 ~cfg.enable_short /\ cfg.stop_loss_percent = mc_stop_loss_percent
InitRBreaker == Init /\ engine = "rbreaker" /\ id = IDNew(IDDefault) /\ mc = MCNew(MCDefault)
InitIntraday == Init /\ engine = "intraday" /\ mc = MCNew(MCDefault)
InitDaily == Init /\ engine = "daily" /\ id = IDNew(IDDefault)

Next == NextRBreaker \/ NextIntraday \/ NextDaily

Spec == Init /\ [][Next]_vars
SpecRBreaker == InitRBreaker /\ [][NextRBreaker]_vars
SpecIntraday == InitIntraday /\ [][NextIntraday]_vars
SpecDaily == InitDaily /\ [][NextDaily]_vars

\* the intraday reporter on the logs of finished backtests
InitIntradayReports ==
    /\ engine = "intraday"
    /\ rb = RBNew
    /\ rbrun = RBRunNew
    /\ mc = MCNew(MCDefault)
    /\ mcrun = MCRunNew
    /\ idday = IDDayNew
    /\ \E legs \in IDLegSeqs :
           LET s == CHOOSE out \in {IDReplayLegs(IDNew(IDDefault), legs, 0)} : TRUE
           IN /\ id = s
              /\ idrun = [IDRunNew EXCEPT !.pc = "done", !.days = Len(legs),
                                          !.total_pnl = SumPnl(s.trades)]
SpecIntradayReports == InitIntradayReports /\ [][ID_Report]_vars

\* a symbol that closes at 10.00 for 29 rows, plunges to 9.00 on heavy volume,
\* slides to 8.60 and rebounds to 9.46 on heavier volume: the volumes and the
\* rows of calculate_indicators (lines 462-496) on the three days
SlideVolumes == <<600, 600, 600, 600, 600, 1000, 1000, 1000, 1000, 7000, 1500>>
ReboundVolumes == <<600, 600, 600, 600, 1000, 1000, 1000, 1000, 7000, 1500, 16000>>
ReboundFrames ==
    [plunge |-> [Frames["plunge"] EXCEPT !.price_change_3d = -100, !.ma3 = 967,
                                         !.rsi = 0,
                                         !.changes = <<0, 0, 0, 0, -100>>],
     slide |-> [Quiet(860) EXCEPT !.rows = 31, !.volumes = SlideVolumes,
                                  !.volume_surge = mc_volume_surge(SlideVolumes),
                                  !.turnover_surge = 9,
                                  !.price_change = -44, !.price_change_3d = -140,
                                  !.amplitude = 50, !.ma3 = 920, !.ma5 = 952,
                                  !.ma10 = 976, !.volume = 1500,
                                  !.volume_ma5 = 2300, !.rsi = 0,
                                  !.changes = <<0, 0, 0, -100, -44>>,
                                  !.high20 = 1010, !.high10 = 1010, !.low10 = 850,
                                  !.volume_std = 1958, !.volume_mean = 1490],
     rebound |-> [Quiet(946) EXCEPT !.rows = 32, !.volumes = ReboundVolumes,
                                    !.volume_surge = mc_volume_surge(ReboundVolumes),
                                    !.turnover_surge = 50,
                                    !.price_change = 100, !.price_change_3d = -54,
                                    !.amplitude = 100, !.ma3 = 902, !.ma5 = 941,
                                    !.ma10 = 971, !.volume = 16000,
                                    !.volume_ma5 = 5300, !.rsi = 38,
                                    !.changes = <<0, 0, -100, -44, 100>>,
                                    !.high20 = 1010, !.high10 = 1010, !.low10 = 850,
                                    !.volume_std = 4950, !.volume_mean = 3030]]
\* the three days of that data, in order
ReboundData == <<"plunge", "slide", "rebound">>

\* the next working day of the window on the plunge-and-rebound data: some
\* symbols of the universe, the same ones on every day, show that day's
\* frame and the others have no bar
MC_ReboundDay ==
    /\ engine = "daily"
    /\ mcrun.pc = "replay"
    /\ mc.trading_days < Len(ReboundData)
    /\ \E listed \in SUBSET Symbols \ {{}} :
        LET date == IF mcrun.date % 7 >= 5 THEN mcrun.date + (7 - (mcrun.date % 7))
                    ELSE mcrun.date
            frames == [sym \in Symbols |->
                          IF sym \in listed
                          THEN ReboundFrames[ReboundData[mc.trading_days + 1]]
                          ELSE Frames["none"]]
        IN /\ mc.trading_days > 0 =>
                  listed = {sym \in Symbols : mcrun.frames[sym].present}
           /\ mc' = process_day(mc, frames, mc.cfg, date)
           /\ mcrun' = [mcrun EXCEPT !.date = date + 1, !.frames = frames]
    /\ UNCHANGED <<engine, rbvars, idvars>>

NextDailyRebound == MC_Start \/ MC_ReboundDay \/ MC_Finish
SpecDailyRebound == InitDaily /\ [][NextDailyRebound]_vars

\* run_backtest called repeatedly on one strategy object with the same data
InitRBreakerReruns ==
    /\ engine = "rbreaker"
    /\ rb = RBNew
    /\ id = IDNew(IDDefault)
    /\ idrun = IDRunNew
    /\ idday = IDDayNew
    /\ mc = MCNew(MCDefault)
    /\ mcrun = MCRunNew
    /\ \E data \in RBDataSets :
           rbrun = [pc |-> "calls", data |-> data, logs |-> <<>>, reports |-> <<>>]
SpecRBreakerReruns == InitRBreakerReruns /\ [][RB_Backtest]_vars

\* one engine per run, each with its default configuration
InitEngines == InitRBreaker \/ InitIntraday \/ InitDaily
SpecEngines == InitEngines /\ [][Next]_vars

(***************************************************************************)
(*                              Properties                                 *)
(***************************************************************************)

\* sum of F over the records of a log
SumOver(log, F(_)) ==
    LET acc[i \in 0 .. Len(log)] == IF i = 0 THEN 0 ELSE acc[i - 1] + F(log[i])
    IN acc[Len(log)]

\* R-Breaker: the trades that open a position
RBOpening(t) == t.reason \in {"breakout_buy", "breakout_sell"}
RBPnl(t) == t.pnl
RBCommission(t) == t.commission
RBOpeningCommission(t) == IF RBOpening(t) THEN t.commission ELSE 0
RBGrossPnl(t) == IF RBOpening(t) THEN 0 ELSE t.pnl + t.commission

\* C1: R-Breaker ledger conservation.  On a fresh strategy, in every state of
\* a backtest, current_capital + position_price * |position| equals
\* initial_capital plus the pnl of all recorded trades minus the commission of
\* the recorded opening trades; while the position is flat, current_capital
\* is initial_capital plus the gross realised pnl minus all commissions paid.
C1_RBreakerLedger ==
    engine = "rbreaker" =>
        /\ rb.current_capital + rb.position_price * Abs(rb.position)
               = initial_capital + SumOver(rb.trades, RBPnl)
                 - SumOver(rb.trades, RBOpeningCommission)
        /\ rb.position = 0 =>
               rb.current_capital
                   = initial_capital + SumOver(rb.trades, RBGrossPnl)
                     - SumOver(rb.trades, RBCommission)

\* C1 witness: a long position was opened and closed with a nonzero pnl and
\* a new position is open
C1_Witness ==
    /\ engine = "rbreaker"
    /\ Len(rb.trades) >= 3
    /\ rb.trades[1].action = "BUY"
    /\ rb.trades[2].pnl # 0
    /\ rb.position # 0

\* C10: R-Breaker end-of-backtest liquidation.  When run_backtest returns
\* after replaying at least one bar the position is 0, and one trade with the
\* forced-liquidation reason, priced at the close of the last bar, for the
\* whole open quantity, is appended if and only if a position was open after
\* the last bar; otherwise the trade log is left as it was.
C10_ForcedLiquidation ==
    [][(rbrun.pc = "replay" /\ rbrun'.pc = "done") =>
          /\ rb'.position = 0
          /\ IF rb.position # 0
             THEN /\ Len(rb'.trades) = Len(rb.trades) + 1
                  /\ SubSeq(rb'.trades, 1, Len(rb.trades)) = rb.trades
                  /\ rb'.trades[Len(rb'.trades)].reason = "forced"
                  /\ rb'.trades[Len(rb'.trades)].price = rbrun.last_close
                  /\ rb'.trades[Len(rb'.trades)].quantity = Abs(rb.position)
                  /\ rb'.trades[Len(rb'.trades)].action
                         = (IF rb.position > 0 THEN "SELL" ELSE "BUY")
             ELSE rb'.trades = rb.trades]_vars

\* C10 witness: the backtest returned and its last trade is the forced
\* liquidation of a short position at the close of the last bar
C10_Witness ==
    /\ engine = "rbreaker"
    /\ rbrun.pc = "done"
    /\ rb.position = 0
    /\ Len(rb.trades) >= 2
    /\ rb.trades[Len(rb.trades)].reason = "forced"
    /\ rb.trades[Len(rb.trades)].action = "BUY"
    /\ rb.trades[Len(rb.trades)].price = rbrun.last_close

\* C5: cash never goes negative.  In each of the three engines the cash
\* balance current_capital is >= 0 in every reachable state.
C5_CashNonNegative ==
    /\ engine = "rbreaker" => rb.current_capital >= 0
    /\ engine = "intraday" => id.current_capital >= 0
    /\ engine = "daily" => mc.current_capital >= 0

\* Intraday: the records produced so far, those of the running day included
IDAllTrades == id.trades \o idday.daily_trades
\* a step that takes one more bar of the day through the loop body
IDBarStep ==
    /\ engine = "intraday"
    /\ idday.pc = "loop"
    /\ idday'.pc \in {"loop", "after_loop"}
    /\ Len(idday'.df) = Len(idday.df) + 1
IDNewBar == idday'.df[Len(idday'.df)]
IDOpen == idday.position.quantity # 0
IDExited ==
    /\ idday'.position = NoPosition
    /\ Len(idday'.daily_trades) = Len(idday.daily_trades) + 1
IDHeldMinutes == IDNewBar.time - idday.position.entry_datetime

\* C4: intraday ledger reconciliation.  At the end of each
\* simulate_trading_day call current_capital equals initial_capital plus the
\* pnl of all IntradayTrade records produced so far, and when run_backtest
\* returns final capital minus initial capital equals total_pnl.
C4_IntradayLedger ==
    (engine = "intraday" /\ idrun.pc \in {"running", "done"} /\ idday.pc = "none") =>
        /\ id.current_capital = id.initial_capital + SumPnl(id.trades)
        /\ idrun.pc = "done" =>
               id.current_capital - id.initial_capital = idrun.total_pnl

\* C8: stop-loss precedence.  Whenever a position is exited at a bar at which
\* both its stop-loss condition and its take-profit condition are true, the
\* exit carries the stop-loss reason, in the intraday engine and, for long and
\* short positions, in the daily engine.
C8_StopLossPrecedence ==
    /\ engine = "intraday" =>
           \A k \in 1 .. Len(IDAllTrades) :
               LET t == IDAllTrades[k]
               IN (/\ stop_loss_hit(id, t, t.exit_price)
                   /\ take_profit_hit(id, t, t.exit_price))
                      => t.exit_reason = "stop_loss"
    /\ engine = "daily" =>
           \A k \in 1 .. Len(mc.trades) :
               LET t == mc.trades[k]
                   long_entry == t.price - (t.pnl \div t.quantity)
                   short_entry == t.price + (t.pnl \div t.quantity)
               IN /\ (/\ t.action = "SELL"
                      /\ long_stop_loss_hit(mc.cfg, t.price, long_entry)
                      /\ long_take_profit_hit(mc.cfg, t.price, long_entry))
                         => t.reason = "stop_loss"
                  /\ (/\ t.action = "COVER"
                      /\ short_stop_loss_hit(mc.cfg, t.price, short_entry)
                      /\ short_take_profit_hit(mc.cfg, t.price, short_entry))
                         => t.reason = "short_stop_loss"

\* C9 as stated: the hard stop-loss is evaluated on every bar on which a
\* position is open, the bars inside the min_hold_minutes guard included: a
\* bar whose close is at or below entry_price * (1 - stop_loss_percent) exits
\* the position at that bar.
C9_StopLossEveryBar ==
    [][(IDBarStep /\ IDOpen
        /\ stop_loss_hit(id, idday.position, IDNewBar.close))
          => IDExited]_vars

\* C9 amended: the hard stop-loss is evaluated only on bars at which the
\* position has been held for at least min_hold_minutes.  On such a bar,
\* before the force-close time, a close at or below
\* entry_price * (1 - stop_loss_percent) exits the position at that bar, with
\* the stop-loss reason unless the take-profit condition holds as well.  On a
\* bar inside the guard and before the force-close time the position is never
\* exited, whatever the close.
C9_StopLossAfterMinHold ==
    [][(IDBarStep /\ IDOpen /\ IDNewBar.time < id_force_close_time) =>
          /\ (/\ IDHeldMinutes >= id_min_hold_minutes
              /\ stop_loss_hit(id, idday.position, IDNewBar.close))
                 => /\ IDExited
                    /\ idday'.daily_trades[Len(idday'.daily_trades)].exit_reason
                           \in {"stop_loss", "take_profit"}
                    /\ ~take_profit_hit(id, idday.position, IDNewBar.close)
                           => idday'.daily_trades[Len(idday'.daily_trades)].exit_reason
                                  = "stop_loss"
          /\ IDHeldMinutes < id_min_hold_minutes
                 => /\ idday'.position.quantity = idday.position.quantity
                    /\ idday'.daily_trades = idday.daily_trades]_vars

\* C9 witness: a bar inside the guard closed below the stop-loss price of the
\* default configuration and the position is still open
C9_Witness ==
    /\ engine = "intraday"
    /\ id.stop_loss_percent = id_stop_loss_percent
    /\ idday.pc = "loop"
    /\ idday.skipped
    /\ idday.position.quantity # 0
    /\ idday.df[Len(idday.df)].time < id_force_close_time
    /\ stop_loss_hit(id, idday.position, idday.df[Len(idday.df)].close)

\* Daily engine: notional at entry of a position, pnl of the closing trades,
\* mark-to-market value of a position at its latest known close
MCEntryNotional(p) == p.entry_price * p.quantity
MCClosedPnl(t) == IF t.action \in {"SELL", "COVER"} THEN t.pnl ELSE 0
MCLongValue(p) == p.current_price * p.quantity
MCShortValue(p) ==
    p.entry_price * p.quantity + (p.entry_price - p.current_price) * p.quantity
MCHasTrade(action) ==
    \E k \in 1 .. Len(mc.trades) :
        mc.trades[k].action = action /\ mc.trades[k].pnl # 0

\* C2: multi-symbol ledger conservation.  After every processed day of the
\* daily backtest, current_capital plus entry_price * quantity over the open
\* long and short positions equals initial_capital plus the pnl of all SELL
\* and COVER trades recorded so far.
C2_DailyLedger ==
    (engine = "daily" /\ mc.trading_days > 0) =>
        mc.current_capital
        + SumOver(mc.positions, MCEntryNotional)
        + SumOver(mc.short_positions, MCEntryNotional)
            = mcrun.initial_capital + SumOver(mc.trades, MCClosedPnl)

\* C2 witness: a long was sold and a short was covered, each with a nonzero
\* pnl, and positions are open
C2_Witness ==
    /\ engine = "daily"
    /\ MCHasTrade("SELL")
    /\ MCHasTrade("COVER")
    /\ Len(mc.positions) + Len(mc.short_positions) > 0

\* C3: every daily snapshot has total_value equal to the cash held after the
\* day's exits and entries plus the mark-to-market value, at the latest known
\* close, of exactly the positions open after the day's exits and entries.
C3_SnapshotEquity ==
    (engine = "daily" /\ Len(mc.daily_portfolio) > 0) =>
        mc.daily_portfolio[Len(mc.daily_portfolio)].total_value
            = mc.current_capital
              + SumOver(mc.positions, MCLongValue)
              + SumOver(mc.short_positions, MCShortValue)

\* C6: the number of open long positions never exceeds max_positions,
\* however many symbols emit a breakout signal on the same day.
C6_MaxPositions ==
    engine = "daily" => Len(mc.positions) <= mc_max_positions

\* C6 witness: every symbol of the universe emitted a breakout signal on the
\* last day, one position was already held, and the purchases of that day
\* filled the capacity
C6_Witness ==
    /\ engine = "daily"
    /\ mcrun.pc = "replay"
    /\ \A sym \in Symbols : check_breakout_signal(mcrun.frames[sym]).ok
    /\ Len(mc.positions) = mc_max_positions
    /\ mc.positions[1].entry_date < mc.positions[2].entry_date
    /\ mc.positions[mc_max_positions].entry_date = mcrun.date - 1

\* C7: with enable_short = True the number of open short positions never
\* exceeds max_short_positions, however many symbols emit a short signal on
\* the same day.
C7_MaxShortPositions ==
    (engine = "daily" /\ mc.cfg.enable_short) =>
        Len(mc.short_positions) <= mc_max_short_positions

\* C11: multi-symbol end-of-backtest liquidation.  When the daily backtest
\* has finished the replay window, every position still open after the final
\* period has been exited, so positions and short_positions are empty when
\* the report is generated.
C11_DailyLiquidation ==
    (engine = "daily" /\ mcrun.pc = "done" /\ mc.trading_days > 0) =>
        /\ mc.positions = <<>>
        /\ mc.short_positions = <<>>

\* C12: calculate_rbreaker_levels returns
\* bbreak = prev_high + f1 * (prev_close - prev_low) and
\* sbreak = prev_low - f1 * (prev_high - prev_close); with H = 10, L = 8,
\* C = 9 and f1 = 0.35 these are 10.35 and 7.65; and whenever
\* prev_low <= prev_close <= prev_high the levels satisfy
\* sbreak <= prev_low <= prev_high <= bbreak.
C12_BreakoutLevels ==
    /\ LET example == rbreaker_levels([StrategyConfig EXCEPT !.f1 = 35],
                                      1000, 800, 900)
       IN /\ example.bbreak = LevelScale * 1035
          /\ example.sbreak = LevelScale * 765
    /\ (engine = "rbreaker" /\ rbrun.day >= 1) =>
           LET H == rbrun.prev.high
               L == rbrun.prev.low
               C == rbrun.prev.close
           IN /\ 100 * rbrun.levels.bbreak = LevelScale * (100 * H + f1 * (C - L))
              /\ 100 * rbrun.levels.sbreak = LevelScale * (100 * L - f1 * (H - C))
              /\ (L <= C /\ C <= H) =>
                     /\ rbrun.levels.sbreak <= LevelScale * L
                     /\ L <= H
                     /\ LevelScale * H <= rbrun.levels.bbreak

\* C12 witness: the levels of a day were computed from a previous day whose
\* close lies strictly between its low and its high
C12_Witness ==
    /\ engine = "rbreaker"
    /\ rbrun.day >= 1
    /\ rbrun.prev.low < rbrun.prev.close
    /\ rbrun.prev.close < rbrun.prev.high
    /\ rbrun.levels.bbreak > LevelScale * rbrun.prev.high
    /\ rbrun.levels.sbreak < LevelScale * rbrun.prev.low

\* R-Breaker: price move in favour of the position opened by record open
RBMove(open, close) ==
    IF open.action = "BUY" THEN close.price - open.price
    ELSE open.price - close.price
\* a stop-loss record at place k of the log, right after the record of the
\* breakout that opened the position
RBStoppedOut(k) ==
    /\ k >= 2
    /\ k <= Len(rb.trades)
    /\ rb.trades[k].reason = "stop_loss"
    /\ RBOpening(rb.trades[k - 1])

\* C13 as stated: a bar sequence that crosses the breakout level once and
\* later the stop-loss level once yields exactly one record in the trade
\* log, the closed trade, whose pnl is the price move times the quantity
\* minus the entry commission and the exit commission.
C13_ClosedTradeNetOfBothCommissions ==
    (engine = "rbreaker" /\ RBStoppedOut(Len(rb.trades)) /\ Len(rb.trades) = 2) =>
        rb.trades[2].pnl
            = RBMove(rb.trades[1], rb.trades[2]) * rb.trades[2].quantity
              - (rb.trades[1].commission + rb.trades[2].commission)

\* C13 amended: such a bar sequence yields two records, the opening one with
\* pnl 0 and its own commission, and exactly one closing record; the closing
\* record has the quantity of the opening one and its pnl is the price move
\* in favour of the position times the quantity minus the closing
\* commission only, quantity * commission_per_share.
C13_ClosedTradeNetOfExitCommission ==
    engine = "rbreaker" =>
        \A k \in 1 .. Len(rb.trades) :
            RBStoppedOut(k) =>
                /\ rb.trades[k - 1].pnl = 0
                /\ rb.trades[k - 1].commission
                       = rb.trades[k - 1].quantity * commission_per_share
                /\ rb.trades[k].quantity = rb.trades[k - 1].quantity
                /\ rb.trades[k].commission
                       = rb.trades[k].quantity * commission_per_share
                /\ rb.trades[k].pnl
                       = RBMove(rb.trades[k - 1], rb.trades[k]) * rb.trades[k].quantity
                         - rb.trades[k].commission
                /\ k = 2 => Len(SelectSeq(SubSeq(rb.trades, 1, 2),
                                          LAMBDA t : ~RBOpening(t))) = 1

\* C13 witness: the log is a breakout purchase followed by its stop-loss sale
C13_Witness ==
    /\ engine = "rbreaker"
    /\ Len(rb.trades) = 2
    /\ RBStoppedOut(2)
    /\ rb.trades[1].action = "BUY"
    /\ rb.trades[2].action = "SELL"
    /\ rb.trades[2].pnl < 0

\* Daily engine: the reference of the trailing exit of a long position is the
\* 10-day high of its symbol (the exit fires 15% below it), that of a short
\* position the 10-day low
MCStillHeld(positions, positions2, sym) ==
    /\ Held(positions, sym)
    /\ Held(positions2, sym)
    /\ PositionOf(positions, sym).entry_date = PositionOf(positions2, sym).entry_date
    /\ mcrun.frames[sym].present
    /\ mcrun'.frames[sym].present

\* C14: over the life of every open position the trailing-stop price never
\* relaxes: from one day to the next it is non-decreasing for a long position
\* and non-increasing for a short position.
C14_TrailingStopMonotone ==
    [][engine = "daily" =>
          \A sym \in Symbols :
              /\ MCStillHeld(mc.positions, mc'.positions, sym)
                     => 85 * mcrun'.frames[sym].high10 >= 85 * mcrun.frames[sym].high10
              /\ MCStillHeld(mc.short_positions, mc'.short_positions, sym)
                     => mcrun'.frames[sym].low10 <= mcrun.frames[sym].low10]_vars


\* the bar that the step replays is checked for a signal
RBChecked == rbrun'.bars > rbrun.bars /\ rbrun'.day > 0
RBCheckedPrice == LevelScale * rbrun'.last_close

\* C16: R-Breaker decision conditions.  check_trading_signal returns an
\* opening decision only when position = 0 and the price is beyond a breakout
\* level by at least min_price_move (price > bbreak and price - bbreak >=
\* min_price_move for BUY, price < sbreak and sbreak - price >= min_price_move
\* for SELL), and a reversal decision only when a position is open and the
\* price is beyond the opposite reversal level by at least min_price_move
\* (at or above senter for a long position, at or below benter for a short).
C16_DecisionConditions ==
    [][RBChecked =>
        LET signal == rbrun'.signal[1]
            reason == rbrun'.signal[2]
            levels == rbrun'.levels
            p == RBCheckedPrice
            move == LevelScale * min_price_move
        IN /\ (signal = "BUY" /\ (rb.position = 0 \/ reason = "breakout_buy")) =>
                /\ rb.position = 0
                /\ reason = "breakout_buy"
                /\ p > levels.bbreak
                /\ p - levels.bbreak >= move
           /\ (signal = "SELL" /\ (rb.position = 0 \/ reason = "breakout_sell")) =>
                /\ rb.position = 0
                /\ reason = "breakout_sell"
                /\ p < levels.sbreak
                /\ levels.sbreak - p >= move
           /\ reason = "reversal_sell" =>
                /\ signal = "SELL"
                /\ rb.position > 0
                /\ p - levels.senter >= move
           /\ reason = "reversal_buy" =>
                /\ signal = "BUY"
                /\ rb.position < 0
                /\ levels.benter - p >= move]_vars

\* a long position opened on a breakout has been closed by a reversal, and a
\* bar above bbreak by less than min_price_move has opened nothing
C16_Witness ==
    /\ engine = "rbreaker"
    /\ Len(rb.trades) = 2
    /\ rb.trades[1].reason = "breakout_buy"
    /\ rb.trades[2].reason = "reversal_sell"
    /\ rb.position = 0
    /\ rbrun.signal = <<"HOLD", "">>
    /\ LevelScale * rbrun.last_close > rbrun.levels.bbreak
    /\ rb.trades[2].datetime + cooldown_minutes <= rbrun.time


\* consecutive records of the trade log are cooldown_minutes apart, the forced
\* liquidation at the end of the data excepted
RBLogSpaced ==
    \A k \in 1 .. Len(rb.trades) - 1 :
        rb.trades[k + 1].reason # "forced" =>
            rb.trades[k + 1].datetime - rb.trades[k].datetime >= cooldown_minutes

\* C17: R-Breaker cooldown.  check_trading_signal returns HOLD at every bar
\* whose time is less than cooldown_minutes after last_trade_time, nothing is
\* traded at such a bar, and so any two consecutive signal-driven trades of
\* the trade log are at least cooldown_minutes apart; the forced liquidation
\* at the end of the backtest is the only trade exempt.
C17_Cooldown ==
    [][/\ (/\ RBChecked
           /\ rb.last_trade_time # NoTime
           /\ rbrun'.time - rb.last_trade_time < cooldown_minutes) =>
              /\ rbrun'.signal[1] = "HOLD"
              /\ rb' = rb
       /\ RBLogSpaced']_vars

\* the bar one minute after a breakout purchase is held, and the position is
\* stopped out at the next bar, cooldown_minutes + 1 after the purchase
C17_Witness ==
    /\ engine = "rbreaker"
    /\ Len(rb.trades) = 2
    /\ rb.trades[1].reason = "breakout_buy"
    /\ rb.trades[2].reason = "stop_loss"
    /\ rb.trades[2].datetime - rb.trades[1].datetime = cooldown_minutes + 1
    /\ rbrun.bars = 4


\* orders the cost function is evaluated on: whole prices in HKD and board
\* lots, from orders whose commission is the minimum to orders far above it
IDCostPrices == {5, 12, 13, 100}
IDCostQuantities == {100, 900}
\* max(price * quantity * commission_rate, min_commission), rates per 10000
IDCommission(price, quantity) ==
    IF MoneyScale * price * quantity * id_commission_rate >= 10000 * id_min_commission
    THEN (MoneyScale * price * quantity * id_commission_rate) \div 10000
    ELSE id_min_commission
\* price * quantity * stamp_duty_rate
IDStampDuty(price, quantity) ==
    (MoneyScale * price * quantity * id_stamp_duty_rate) \div 10000
IDEntered == ~IDOpen /\ idday'.position.quantity # 0

\* C18: calculate_trading_cost(price, quantity, is_buy) is
\* max(price * quantity * commission_rate, min_commission) for a buy and that
\* amount plus price * quantity * stamp_duty_rate for a sale, no stamp duty is
\* charged on a buy, and the cash taken at an entry is the value bought plus
\* this cost and the cash returned at an exit is the value sold minus it.
C18_TradingCost ==
    [][/\ \A price \in IDCostPrices \cup IDPrices, quantity \in IDCostQuantities :
            /\ calculate_trading_cost(price, quantity, TRUE)
                   = IDCommission(price, quantity)
            /\ calculate_trading_cost(price, quantity, FALSE)
                   = IDCommission(price, quantity) + IDStampDuty(price, quantity)
       /\ (IDBarStep /\ IDEntered) =>
            LET price == idday'.position.entry_price
                quantity == idday'.position.quantity
            IN id.current_capital - id'.current_capital
                   = MoneyScale * price * quantity + IDCommission(price, quantity)
       /\ (IDBarStep /\ IDExited) =>
            LET price == IDNewBar.close
                quantity == idday.position.quantity
            IN id'.current_capital - id.current_capital
                   = MoneyScale * price * quantity
                     - (IDCommission(price, quantity) + IDStampDuty(price, quantity))]_vars

\* a position has been bought and sold again at a profit
C18_Witness ==
    /\ engine = "intraday"
    /\ Len(idday.daily_trades) = 1
    /\ idday.daily_trades[1].exit_reason = "take_profit"
    /\ idday.daily_trades[1].quantity > 0
    /\ calculate_trading_cost(5, 100, TRUE) = id_min_commission


\* a step that processes one more working day, and the records it appends
MCDayStep == engine = "daily" /\ mc'.trading_days = mc.trading_days + 1
MCNewTrades == SubSeq(mc'.trades, Len(mc.trades) + 1, Len(mc'.trades))
MCIsExit(t) == t.action \in {"SELL", "COVER"}
\* cash returned by an exit: the proceeds of a SELL; the margin entry_price *
\* quantity plus the pnl of a COVER
MCExitCredit(t) ==
    IF t.action = "SELL" THEN t.price * t.quantity
    ELSE IF t.action = "COVER" THEN t.price * t.quantity + 2 * t.pnl
    ELSE 0

\* C19: within each processed day of the daily backtest every exit (SELL,
\* COVER) is evaluated and applied to cash and to the position maps before any
\* entry candidate of that day is evaluated: the day's exit records precede
\* its entry records, the first entry is sized on the cash that includes the
\* proceeds of all the day's exits, and a slot freed by a SELL is taken the
\* same day by a symbol that shows a breakout signal.
C19_ExitsBeforeEntries ==
    [][MCDayStep =>
        LET new == MCNewTrades
            exits == SelectSeq(new, MCIsExit)
            entries == SelectSeq(new, LAMBDA t : ~MCIsExit(t))
            cash == mc.current_capital + SumOver(exits, MCExitCredit)
            sold == {exits[k].symbol : k \in {j \in 1 .. Len(exits) :
                                                 exits[j].action = "SELL"}}
            kept == {mc.positions[k].symbol : k \in 1 .. Len(mc.positions)} \ sold
        IN /\ new = exits \o entries
           /\ entries # <<>> =>
                entries[1].quantity =
                    IF entries[1].action = "BUY"
                    THEN long_quantity(cash, entries[1].price)
                    ELSE short_quantity(cash, entries[1].price)
           /\ (/\ sold # {}
               /\ \E sym \in Symbols \ kept :
                      /\ check_breakout_signal(mcrun'.frames[sym]).ok
                      /\ long_quantity(cash, mcrun'.frames[sym].close) > 0) =>
                 \E k \in 1 .. Len(entries) : entries[k].action = "BUY"]_vars

\* the long positions filled the capacity, all were sold on the last day and
\* the capacity was filled again on that day
C19_Witness ==
    /\ engine = "daily"
    /\ mc.trading_days = 2
    /\ Len(mc.trades) = 3 * mc_max_positions
    /\ \A k \in 1 .. mc_max_positions :
           /\ mc.trades[k].action = "BUY"
           /\ mc.trades[mc_max_positions + k].action = "SELL"
           /\ mc.trades[2 * mc_max_positions + k].action = "BUY"
           /\ mc.trades[mc_max_positions + k].date = mc.trades[2 * mc_max_positions + k].date
    /\ Len(mc.positions) = mc_max_positions


\* the symbol identifiers as numbers, for their ascending order
MCSymbolId(sym) ==
    IF sym = "0005" THEN 5
    ELSE IF sym = "0388" THEN 388
    ELSE IF sym = "0700" THEN 700
    ELSE 941
\* the strength of the breakout signal a symbol shows on the day of the step
MCStrength(sym) == check_breakout_signal(mcrun'.frames[sym]).strength
\* a outranks b: stronger signal, or equal strength and smaller identifier
MCOutranks(a, b) ==
    \/ MCStrength(a) > MCStrength(b)
    \/ MCStrength(a) = MCStrength(b) /\ MCSymbolId(a) < MCSymbolId(b)

\* C20: the long entry candidates of a day are accepted in order of signal
\* strength descending, candidates of equal strength in ascending order of
\* symbol identifier, so the accepted set depends on the day's signals only:
\* each purchase of the day outranks the purchases after it, and no symbol
\* that showed a breakout signal and was passed over outranks a purchase.
C20_RankedByStrengthThenSymbol ==
    [][MCDayStep =>
        LET buys == SelectSeq(MCNewTrades, LAMBDA t : t.action = "BUY")
            bought == {buys[k].symbol : k \in 1 .. Len(buys)}
            passed == {sym \in Symbols \ bought :
                          /\ ~Held(mc'.positions, sym)
                          /\ check_breakout_signal(mcrun'.frames[sym]).ok}
        IN /\ \A i, j \in 1 .. Len(buys) :
                  i < j => MCOutranks(buys[i].symbol, buys[j].symbol)
           /\ \A a \in passed, b \in bought : ~MCOutranks(a, b)]_vars


\* cash taken by an entry record
MCEntryNotionalOf(t) == t.price * t.quantity
\* the record of sym in a position map, <<>> when sym is not held
MCRecordOf(positions, sym) == SelectSeq(positions, LAMBDA p : p.symbol = sym)

\* C21: a missing bar is a no-op.  On a processed day for which a symbol has
\* no bar, no entry and no exit is executed for that symbol, its long and
\* short position records are left as they were, and the cash moves only by
\* the trades of the symbols that have a bar that day.
C21_MissingBarNoOp ==
    [][MCDayStep =>
        LET new == MCNewTrades
            absent == {sym \in Symbols : ~mcrun'.frames[sym].present}
            traded == SelectSeq(new, LAMBDA t : t.symbol \notin absent)
            entries == SelectSeq(traded, LAMBDA t : ~MCIsExit(t))
        IN /\ \A k \in 1 .. Len(new) : new[k].symbol \notin absent
           /\ \A sym \in absent :
                  /\ MCRecordOf(mc'.positions, sym) = MCRecordOf(mc.positions, sym)
                  /\ MCRecordOf(mc'.short_positions, sym)
                         = MCRecordOf(mc.short_positions, sym)
           /\ mc'.current_capital
                  = mc.current_capital + SumOver(traded, MCExitCredit)
                    - SumOver(entries, MCEntryNotionalOf)]_vars

\* 0700 was bought at 11.00 and on the last day, which has a bar for 0005
\* only, it is still held although the stale frame of 0700 closes at 10.00,
\* below its stop-loss; 0005 was bought that day
C21_Witness ==
    /\ engine = "daily"
    /\ mc.trading_days = 2
    /\ ~mcrun.frames["0700"].present
    /\ Held(mc.positions, "0700")
    /\ long_stop_loss_hit(mc.cfg, mcrun.frames["0700"].close,
                          PositionOf(mc.positions, "0700").entry_price)
    /\ Len(mc.trades) = 2
    /\ mc.trades[2].symbol = "0005"
    /\ mc.trades[2].date = mcrun.date - 1


\* C22: no look-ahead in the R-Breaker replay.  The levels used to decide on
\* a bar of day d are those of the high, low and close of the preceding
\* trading day of the data, complete and without any bar of day d; bars are
\* processed in strictly increasing timestamp order, every record of the
\* trade log carries the time of the bar that was being processed, and no
\* trade is executed on the first day of the data.
C22_NoLookAhead ==
    [][(engine = "rbreaker" /\ rbrun'.bars > rbrun.bars) =>
        LET preceding == IF rbrun'.day > rbrun.day THEN rbrun.today ELSE rbrun.prev
        IN /\ rbrun.bars > 0 => rbrun'.time > rbrun.time
           /\ rbrun'.day = 0 => rb' = rb /\ rb.trades = <<>>
           /\ rbrun'.day > 0 =>
                /\ rbrun'.prev = preceding
                /\ rbrun'.levels = calculate_rbreaker_levels(
                       preceding.high, preceding.low, preceding.close)
                /\ rbrun'.signal = check_trading_signal(
                       rb, rbrun'.last_close, rbrun'.levels, rbrun'.time)
           /\ \A k \in Len(rb.trades) + 1 .. Len(rb'.trades) :
                  /\ rb'.trades[k].datetime = rbrun'.time
                  /\ rb'.trades[k].price = rbrun'.last_close]_vars

\* a bar of the second day has opened a position on a breakout of the first
\* day's range although a later bar of the second day set a new high
C22_Witness ==
    /\ engine = "rbreaker"
    /\ rbrun.day = 1
    /\ Len(rb.trades) = 1
    /\ rb.trades[1].reason = "breakout_buy"
    /\ rb.trades[1].datetime < rbrun.time
    /\ rbrun.today.high > rb.trades[1].price
    /\ rbrun.today.high > rbrun.prev.high
    /\ rbrun.levels = calculate_rbreaker_levels(
           rbrun.prev.high, rbrun.prev.low, rbrun.prev.close)


\* volume of a bar
IDVolumeOf(row) == row.volume
IDCloseOf(row) == row.close

\* C23: in every engine's indicator computation the volume-surge ratio at
\* bar i is volume[i] divided by the average volume of the window of bars
\* strictly before i, and every moving average compared with the close of bar
\* i is computed from bars strictly before i.  Intraday: volume_ma10 and ma5
\* of 0-based row i0 are sums over rows i0 - 10 .. i0 - 1 and i0 - 5 .. i0 - 1.
\* Daily: the volume surge of the day's frame is the day's volume over the
\* mean of the ten volumes before it.
C23_LaggedIndicators ==
    /\ engine = "intraday" =>
           \A i0 \in 0 .. Len(idday.df) - 1 :
               /\ volume_ma10_defined(idday.df, i0) =>
                      volume_ma10_sum(idday.df, i0)
                          = SumOver(SubSeq(idday.df, i0 - 9, i0), IDVolumeOf)
               /\ ma5_defined(idday.df, i0) =>
                      ma5_sum(idday.df, i0)
                          = SumOver(SubSeq(idday.df, i0 - 4, i0), IDCloseOf)
    /\ engine = "daily" =>
           \A sym \in Symbols :
               LET x == mcrun.frames[sym]
                   before == SubSeq(x.volumes, 1, 10)
               IN bar_present(x) =>
                      x.volume_surge
                          = (100 * x.volumes[11]) \div SumOver(before, LAMBDA v : v)


\* the 0-based row of the day's frame that carries the time t
IDRowAt(df, t) == CHOOSE i0 \in 0 .. Len(df) - 1 : df[i0 + 1].time = t

\* daily frames with a short history or undefined columns: the breakout frame
\* with a history of 3, 5 or 9 rows, with one column undefined, and with the
\* columns of the confirmations all undefined
C24Frames ==
    LET b == Frames["breakout"]
    IN {[b EXCEPT !.rows = 3], [b EXCEPT !.rows = 5], [b EXCEPT !.rows = 9],
        [b EXCEPT !.rows = 10], b,
        [b EXCEPT !.volume_surge = NaN], [b EXCEPT !.price_change = NaN],
        [b EXCEPT !.amplitude = NaN], [b EXCEPT !.ma5 = NaN],
        [b EXCEPT !.ma10 = NaN], [b EXCEPT !.turnover_surge = NaN],
        [b EXCEPT !.rsi = NaN], [b EXCEPT !.price_change_3d = NaN],
        [b EXCEPT !.ma10 = NaN, !.turnover_surge = NaN, !.rsi = NaN,
                  !.price_change_3d = NaN]}

\* the lengths of a whole frame; a frame is at least as long as its rows up
\* to the current date
C24FrameLengths == {3, 4, 5, 9, 10, 12, 30}

\* C24: undefined indicators never fire a rule and never raise.  Daily
\* (stated once, before the run starts): check_breakout_signal raises no
\* exception, whatever the length of the whole frame, and gives no signal
\* on a day with fewer than 10 rows up to it, with or without indicator
\* columns, or with an undefined volume surge, price
\* change, amplitude or ma5, and an undefined ma10, 3-day price change,
\* turnover surge or rsi never adds to the strength.  Intraday:
\* simulate_trading_day never ends in an exception; on every row of a day,
\* whatever its length, check_drop_signal and check_reversal_signal raise no
\* exception, and before row 20 they are false; a row without a defined
\* volume_ma10 satisfies no rule that reads the volume surge; and every
\* position of the day was entered, and every trade of the day entered and
\* left, on a row from row 20 on.
C24_UndefinedNeverFires ==
    /\ \A x \in IF idrun.pc = "idle" THEN C24Frames ELSE {} :
           /\ \A len_df \in {n \in C24FrameLengths : n >= x.rows} :
                  ~check_breakout_signal_raises(x, len_df)
           /\ (\/ x.rows < 10 \/ isna(x.volume_surge) \/ isna(x.price_change)
               \/ isna(x.amplitude) \/ isna(x.ma5))
                  => ~check_breakout_signal(x).ok
           /\ check_breakout_signal(x).strength
                  <= check_breakout_signal(
                         [x EXCEPT !.ma10 = Frames["breakout"].ma10,
                                   !.turnover_surge = Frames["breakout"].turnover_surge,
                                   !.rsi = Frames["breakout"].rsi,
                                   !.price_change_3d =
                                       Frames["breakout"].price_change_3d]).strength
    /\ engine = "intraday" =>
           /\ idday.pc # "raised"
           /\ \A i0 \in 0 .. Len(idday.df) - 1 :
                  /\ ~check_drop_signal_raises(idday.df, i0)
                  /\ ~check_reversal_signal_raises(idday.df, i0)
                  /\ i0 < 20 => /\ ~check_drop_signal(idday.df, i0)
                                /\ ~check_reversal_signal(idday.df, i0)
                  /\ ~volume_ma10_defined(idday.df, i0)
                         => /\ ~volume_surge_ge(idday.df, i0, id_min_volume_surge)
                            /\ ~volume_surge_gt(idday.df, i0, 12)
           /\ idday.position.quantity # 0
                  => IDRowAt(idday.df, idday.position.entry_datetime) >= 20
           /\ \A k \in 1 .. Len(idday.daily_trades) :
                  /\ IDRowAt(idday.df, idday.daily_trades[k].entry_time) >= 20
                  /\ IDRowAt(idday.df, idday.daily_trades[k].exit_time) >= 20

\* a day of 8 bars, whose frame has no indicator columns: the last three bars
\* went through the loop, the last one 3% or more below the open on twice
\* the volume of the bar before, without an exception and without a trade
C24_Witness ==
    /\ engine = "intraday"
    /\ idday.pc = "loop"
    /\ Len(idday.df) = 8
    /\ idrun.bars = 3
    /\ ~indicator_columns(idday.df)
    /\ cumulative_return_le_minus(idday.df, 7, id_min_drop_percent)
    /\ idday.df[8].volume >= 2 * idday.df[7].volume
    /\ idday.df[8].close > idday.df[7].close
    /\ idday.position.quantity = 0
    /\ idday.daily_trades = <<>>
    /\ idday.looking_for_drop
    /\ ~idday.drop_detected


\* C25: a run configured with a non-positive initial capital is rejected
\* before the first bar is replayed: the daily engine never replays a day of
\* such a run and its snapshots and positions stay as they were.
C25_ConfigFailFast ==
    (engine = "daily" /\ mcrun.initial_capital <= 0)
        => /\ mcrun.pc # "replay"
           /\ mc.trading_days = 0
           /\ mc.daily_portfolio = <<>>


\* the records of the R-Breaker log that close a position: the log of a run
\* alternates an opening and the closing of the position it opened
RBClosings(log) == [k \in 1 .. Len(log) \div 2 |-> log[2 * k]]

\* C26: the win rate of RBreakerStrategy.generate_report is the number of
\* closed trades with pnl > 0 over the number of closed trades; the records
\* of position openings count in neither.
C26_WinRateOverClosed ==
    engine = "rbreaker" =>
        \A k \in 1 .. Len(rbrun.reports) :
            (rb.trades # <<>> /\ RBClosings(rb.trades) # <<>>) =>
                rbrun.reports[k].win_rate
                    = (1000 * Len(Winning(RBClosings(rb.trades))))
                      \div Len(RBClosings(rb.trades))


\* the closings of long positions are the SELL records among the closings,
\* the closings of short positions the BUY records
RBLongClosings(log) == SelectSeq(RBClosings(log), LAMBDA t : t.action = "SELL")
RBShortClosings(log) == SelectSeq(RBClosings(log), LAMBDA t : t.action = "BUY")

\* C27: in RBreakerStrategy.generate_report the pnl realised by closing a long
\* position is counted in the long statistics (total pnl and wins) and the pnl
\* realised by closing a short position in the short statistics.
C27_BreakdownBySide ==
    engine = "rbreaker" =>
        \A k \in 1 .. Len(rbrun.reports) :
            rb.trades # <<>> =>
                /\ rbrun.reports[k].long_pnl = SumPnl(RBLongClosings(rb.trades))
                /\ rbrun.reports[k].long_wins = Len(Winning(RBLongClosings(rb.trades)))
                /\ rbrun.reports[k].short_pnl = SumPnl(RBShortClosings(rb.trades))
                /\ rbrun.reports[k].short_wins = Len(Winning(RBShortClosings(rb.trades)))


\* C28: the profit factor a reporter gives is |sum of winning pnl / sum of
\* losing pnl| over the closed trades.  Intraday reporter: whenever the log
\* has a losing trade, the reported quotient equals that quotient of sums
\* (both in thousandths).
C28_ProfitFactorOfSums ==
    engine = "intraday" =>
        \A k \in 1 .. Len(idrun.reports) :
            Losing(id.trades) # <<>> =>
                idrun.reports[k].profit_loss_ratio
                    = (1000 * SumPnl(Winning(id.trades)))
                      \div (0 - SumPnl(Losing(id.trades)))


\* the exit rules of a long position in six classes, each stated on its own:
\* which classes have a satisfied rule for the frame x of the day, the entry
\* price e and the holding days h
\*   1 stop-loss   2 take-profit   3 holding-period-tiered dynamic exits
\*   4 technical deterioration and the risk controls in profit and in loss
\*   5 time-based stops   6 the market-deterioration exit
MCSatisfied(cfg, x, e, h) ==
    LET g == (x.close - e) * 1000
        changes2 == LastK(x.changes, 2)
        changes3 == LastK(x.changes, 3)
        changes5 == LastK(x.changes, 5)
    IN {c \in 1 .. 6 :
          \/ c = 1 /\ 1000 * x.close <= e * (1000 - cfg.stop_loss_percent)
          \/ c = 2 /\ 1000 * x.close >= e * (1000 + cfg.take_profit_percent)
          \/ c = 3 /\ \/ /\ h \in 1 .. 3 /\ g >= 150 * e
                         /\ lt(x.price_change, -80)
                      \/ /\ h \in 4 .. 10 /\ g >= 100 * e
                         /\ \/ lt(x.price_change, -100)
                            \/ x.rows >= 3 /\ AllOf(changes3, LAMBDA d : lt(d, -50))
                      \/ /\ h >= 11 /\ g >= 50 * e /\ x.rows >= 10
                         /\ 100 * (x.high10 - x.close) > 15 * x.high10
          \/ c = 4 /\ \/ /\ x.rows >= 3
                         /\ \/ lt(x.volume_surge, 7) /\ lt(x.price_change, -40)
                            \/ /\ ~isna(x.ma5) /\ x.close < x.ma5
                               /\ gt(x.volume_surge, 15) /\ lt(x.price_change, -40)
                            \/ AllOf(changes2, LAMBDA d : lt(d, -20))
                      \/ /\ g > 100 * e
                         /\ \/ /\ h >= 5
                               /\ AllOf(changes5, LAMBDA d : d # NaN /\ Abs(d) < 20)
                            \/ gt(x.rsi, 90)
                      \/ /\ g < -20 * e
                         /\ \/ gt(x.volume_surge, 20) /\ lt(x.price_change, -30)
                            \/ /\ x.rows >= 3
                               /\ CountIf(changes3, LAMBDA d : lt(d, -20)) >= 2
          \/ c = 5 /\ \/ h >= 20 /\ g < -30 * e
                      \/ h >= 30 /\ g < 50 * e
          \/ c = 6 /\ x.rows >= 3
                   /\ CountIf(changes3, LAMBDA d : lt(d, -40)) >= 2}

\* the class of the rule an exit reason names, 0 for no exit
MCReasonClass(reason) ==
    CASE reason = "" -> 0
      [] reason = "stop_loss" -> 1
      [] reason = "take_profit" -> 2
      [] reason \in {"short_term_profit", "mid_term_profit", "trend_weakening",
                     "trailing_profit"} -> 3
      [] reason \in {"volume_price_divergence", "below_ma5", "consecutive_declines",
                     "stagnation", "rsi_overheated", "heavy_volume_decline",
                     "continued_decline"} -> 4
      [] reason \in {"time_stop", "underperformance"} -> 5
      [] reason = "market_deterioration" -> 6

\* the highest-precedence class of a set of classes, 0 for the empty set
MCFirstClass(classes) ==
    IF classes = {} THEN 0
    ELSE CHOOSE c \in classes : \A d \in classes : c <= d

\* frames of a position held for some days: two drops of 5% in three days
\* around a rise, a drop of 11% from a high after a run of rises, a flat day
C29Frames ==
    {[Quiet(1000) EXCEPT !.price_change = -50, !.changes = <<0, 0, -50, 30, -50>>],
     [Quiet(1200) EXCEPT !.price_change = -110, !.changes = <<50, 50, 50, 50, -110>>,
                         !.high10 = 1450, !.ma3 = 1310, !.ma5 = 1300, !.ma10 = 1250,
                         !.rsi = 60, !.volume_surge = 20, !.volume = 2200],
     Quiet(1000)}
C29EntryPrices == {1000, 1040, 1100}
C29HoldDays == {2, 5, 11, 20, 30}

\* the SELL records of the day that was replayed last
MCSoldToday == SelectSeq(mc.trades, LAMBDA t : t.action = "SELL" /\ t.date = mcrun.date - 1)
\* the entry price of the position a SELL record closed
MCEntryPriceOf(t) == t.price - t.pnl \div t.quantity

\* the exits agree with the precedence of the classes in `classes`: under the
\* configuration of a strategy about to run, check_exit_signal gives on the
\* frames above the reason of a rule of the first satisfied class, and none
\* when no class is satisfied; in the replay every long position is sold at
\* most once a day, for the reason of the first satisfied class, and stays
\* open when none is
MCExitsFollow(classes) ==
    engine = "daily" =>
        /\ mcrun.pc = "idle" =>
               \A x \in C29Frames, e \in C29EntryPrices, h \in C29HoldDays :
                   LET reason == check_exit_signal(mc.cfg, x, e, h)
                   IN /\ reason # "" => MCReasonClass(reason) \in classes
                      /\ MCReasonClass(reason)
                             = MCFirstClass(MCSatisfied(mc.cfg, x, e, h) \cap classes)
        /\ \A k \in 1 .. Len(MCSoldToday) :
               LET t == MCSoldToday[k]
               IN /\ MCReasonClass(t.reason)
                         = MCFirstClass(MCSatisfied(mc.cfg, mcrun.frames[t.symbol],
                                                    MCEntryPriceOf(t), t.hold_days)
                                        \cap classes)
                  /\ MCReasonClass(t.reason) # 0
                  /\ \A j \in 1 .. Len(MCSoldToday) :
                         MCSoldToday[j].symbol = t.symbol => j = k
        /\ \A k \in 1 .. Len(mc.positions) :
               LET p == mc.positions[k]
               IN (p.entry_date < mcrun.date - 1 /\ mcrun.frames[p.symbol].present)
                      => MCSatisfied(mc.cfg, mcrun.frames[p.symbol], p.entry_price,
                                     mcrun.date - 1 - p.entry_date) = {}

\* C29 as stated: an exit of the daily engine has the reason of the
\* highest-precedence satisfied rule in the order stop-loss, take-profit,
\* holding-period-tiered dynamic exits, technical-deterioration exits,
\* time-based stop.
C29_FiveRuleOrder == MCExitsFollow(1 .. 5)

\* C29, amended: at most one exit is executed per open long position per day,
\* and its reason is that of the highest-precedence satisfied rule in the
\* order stop-loss, take-profit, holding-period-tiered dynamic exits,
\* technical-deterioration and risk-control exits, time-based stops, and last
\* the market-deterioration exit (two of the last three daily changes below
\* -4%), which is evaluated after the time-based stops.
C29_FirstSatisfiedRuleWins == MCExitsFollow(1 .. 6)

\* a long position was sold today while rules of two classes were satisfied
C29_Witness ==
    /\ engine = "daily"
    /\ \E k \in 1 .. Len(MCSoldToday) :
           LET t == MCSoldToday[k]
           IN Cardinality(MCSatisfied(mc.cfg, mcrun.frames[t.symbol],
                                      MCEntryPriceOf(t), t.hold_days)) >= 2
    /\ \E x \in C29Frames, e \in C29EntryPrices :
           /\ check_exit_signal(mc.cfg, x, e, 30) = "underperformance"
           /\ 6 \in MCSatisfied(mc.cfg, x, e, 30)
           /\ check_exit_signal(mc.cfg, x, e, 5) = "market_deterioration"


\* an evaluated R-Breaker bar at which the open position has been held for
\* max_hold_minutes or longer
RBHoldReached ==
    /\ engine = "rbreaker"
    /\ rbrun'.bars = rbrun.bars + 1
    /\ rbrun'.day # 0
    /\ rb.position # 0
    /\ rb.position_time # NoTime
    /\ rbrun'.time - rb.position_time >= max_hold_minutes
\* the position is closed at that bar
RBClosedAtBar ==
    /\ rb'.position = 0
    /\ Len(rb'.trades) = Len(rb.trades) + 1
    /\ rb'.trades[Len(rb'.trades)].datetime = rbrun'.time

C30EntryPrices == {950, 1000, 1040}
C30HoldDays == {15, 20, 30}
\* the returns of a long and of a short position, compared with permille / 1000
C30LongBelow(x, e, permille) == (x.close - e) * 1000 < permille * e
C30ShortBelow(x, e, permille) == (e - x.close) * 1000 < permille * e

\* C30 as stated: once the holding duration has reached the maximum holding
\* duration at an evaluated bar the position is exited at that bar regardless
\* of its return: an R-Breaker position held max_hold_minutes, a daily long
\* position held the 20 days and a daily short position held the 15 days of
\* the time stops of check_exit_signal and check_short_exit_signal.
C30_UnconditionalTimeStop ==
    /\ [][RBHoldReached => RBClosedAtBar]_vars
    /\ [](engine = "daily" /\ mcrun.pc = "idle" =>
             \A x \in C29Frames, e \in C30EntryPrices, h \in C30HoldDays :
                 /\ h >= 20 => check_exit_signal(mc.cfg, x, e, h) # ""
                 /\ h >= 15 => check_short_exit_signal(mc.cfg, x, e, h) # "")

\* C30, amended: an R-Breaker position held max_hold_minutes or longer at an
\* evaluated bar is closed at that bar regardless of its return.  The time
\* stops of the daily engine depend on the return: a long position is exited
\* when held 20 days with a return below -3% or 30 days with a return below
\* +5%, a short position when held 15 days with a return below -2% or 20 days
\* with a return below +3%; on a flat day a position with a better return,
\* short of its stop-loss and take-profit levels, stays open however long it
\* has been held.
C30_TimeStops ==
    /\ [][RBHoldReached => RBClosedAtBar]_vars
    /\ [](engine = "daily" /\ mcrun.pc = "idle" =>
             \A x \in C29Frames, e \in C30EntryPrices, h \in C30HoldDays :
                 LET long_due == \/ h >= 20 /\ C30LongBelow(x, e, -30)
                                 \/ h >= 30 /\ C30LongBelow(x, e, 50)
                     short_due == \/ h >= 15 /\ C30ShortBelow(x, e, -20)
                                  \/ h >= 20 /\ C30ShortBelow(x, e, 30)
                 IN /\ long_due => check_exit_signal(mc.cfg, x, e, h) # ""
                    /\ short_due => check_short_exit_signal(mc.cfg, x, e, h) # ""
                    /\ x = Quiet(1000) =>
                           /\ (~long_due /\ MCSatisfied(mc.cfg, x, e, h) \cap {1, 2} = {})
                                  => check_exit_signal(mc.cfg, x, e, h) = ""
                           /\ ~short_due
                                  => check_short_exit_signal(mc.cfg, x, e, h) = "")

\* an R-Breaker position was closed by the timeout rule after max_hold_minutes
C30_Witness ==
    /\ engine = "rbreaker"
    /\ \E k \in 1 .. Len(rb.trades) :
           /\ rb.trades[k].reason = "timeout"
           /\ rb.trades[k].hold_minutes >= max_hold_minutes

\* R-Breaker: an evaluated bar at which the strategy is flat and an entry
\* signal is given
RBEntrySignalled ==
    /\ engine = "rbreaker"
    /\ RBChecked
    /\ rb.position = 0
    /\ rbrun'.signal[2] \in {"breakout_buy", "breakout_sell"}
\* the capital of strategies that cannot pay for one lot at the prices of
\* IDPrices: none, 375 HKD short of a lot at 95 HKD, and a debt
C31Capitals == {0, 9125 * MoneyScale, 0 - id_initial_capital}
\* the records of the daily log that open a position
MCIsEntry(t) == t.action \in {"BUY", "SHORT"}

\* C31: an under-funded candidate is dropped with no effect.  When the
\* computed entry size is below one lot (100 shares in the intraday and daily
\* engines, 1 share in R-Breaker) no trade is recorded and cash and position
\* state, and in R-Breaker last_trade_time and total_commission, are left
\* unchanged; every recorded entry has a positive quantity that is a whole
\* multiple of the lot.
C31_UnderFundedDropped ==
    [][/\ (RBEntrySignalled
           /\ rb.current_capital < rbrun'.last_close + commission_per_share)
              => rb' = rb
       /\ (RBEntrySignalled /\ rb' # rb) =>
              /\ Len(rb'.trades) = Len(rb.trades) + 1
              /\ rb'.trades[Len(rb'.trades)].quantity >= 1
              /\ Abs(rb'.position) = rb'.trades[Len(rb'.trades)].quantity
       /\ (IDBarStep /\ IDEntered) =>
              /\ idday'.position.quantity >= 100
              /\ idday'.position.quantity % 100 = 0
              /\ \A capital \in C31Capitals :
                     LET poor == [id EXCEPT !.current_capital = capital]
                         d == [idday EXCEPT !.skipped = FALSE, !.df = idday'.df]
                         r == IterateBar(poor, d, idrun.days, IDNewBar.time,
                                         IDNewBar.close, idday'.df, Len(idday.df))
                     IN /\ calculate_position_size(capital, IDNewBar.close) < 100
                        /\ r[1] = poor
                        /\ r[2].position = NoPosition
                        /\ r[2].daily_trades = idday.daily_trades
       /\ MCDayStep =>
              /\ \A k \in 1 .. Len(MCNewTrades) :
                     MCIsEntry(MCNewTrades[k]) =>
                         /\ MCNewTrades[k].quantity >= 100
                         /\ MCNewTrades[k].quantity % 100 = 0
              /\ \A sym \in Symbols :
                     LET price == mcrun'.frames[sym].close
                         c == [symbol |-> sym, price |-> price,
                               signal |-> check_breakout_signal(mcrun'.frames[sym])]
                     IN /\ 8 * mc.current_capital < 100 * 100 * price
                            => buy_position(mc, c, mcrun.date) = mc
                        /\ 5 * mc.current_capital < 100 * 100 * price
                            => short_position(mc, sym, mcrun'.frames, mc.cfg,
                                              mcrun.date) = mc
              /\ (mc.current_capital <= 0 /\ mc.positions = <<>>
                  /\ mc.short_positions = <<>>) =>
                     /\ mc'.trades = mc.trades
                     /\ mc'.current_capital = mc.current_capital
                     /\ mc'.positions = <<>>
                     /\ mc'.short_positions = <<>>]_vars

\* an R-Breaker short position was stopped out at a loss larger than the
\* capital, and the breakout signalled at the next evaluated bar was dropped
C31_Witness ==
    /\ engine = "rbreaker"
    /\ rbrun.pc = "replay"
    /\ Len(rb.trades) = 2
    /\ rb.position = 0
    /\ rb.current_capital < rbrun.last_close + commission_per_share
    /\ rbrun.signal[2] \in {"breakout_buy", "breakout_sell"}
    /\ rbrun.time > rb.last_trade_time

\* a step at which simulate_trading_day returns: the day's records are moved
\* to the log of the strategy
IDDayReturns ==
    /\ engine = "intraday"
    /\ idday.pc \in {"loop", "after_loop"}
    /\ idday'.pc = "none"
    /\ idrun'.days = idrun.days + 1

\* C32: intraday close-out.  For every sequence of bars of a day, a position
\* opened during simulate_trading_day is closed by a recorded trade
\* (take-profit, stop-loss or close-out) before simulate_trading_day returns:
\* no position is open when it returns, and the cash of the day's entries has
\* come back as the credit of an exit, so the capital has moved by the pnl of
\* the day's records.
C32_ClosedBeforeReturn ==
    [][IDDayReturns =>
          /\ idday.position = NoPosition
          /\ id'.current_capital
                 = id.initial_capital + SumPnl(id'.trades)]_vars

\* the stop-loss level of the open R-Breaker position is reached by the close
\* of the bar being evaluated
RBStopLevelReached ==
    /\ engine = "rbreaker"
    /\ RBChecked
    /\ \/ /\ rb.position > 0
          /\ 100 * rbrun'.last_close <= rb.position_price * (100 - stop_loss_percent)
       \/ /\ rb.position < 0
          /\ 100 * rbrun'.last_close >= rb.position_price * (100 + stop_loss_percent)

\* C33: the R-Breaker hard stop-loss is always checked.  At every processed
\* bar at which a long position is open and close <= position_price *
\* (1 - stop_loss_percent), or a short position is open and close >=
\* position_price * (1 + stop_loss_percent), the position is closed at that
\* bar with the stop-loss reason, ahead of the reversal and timeout exits.
C33_StopLossAlwaysChecked ==
    [][RBStopLevelReached =>
          /\ RBClosedAtBar
          /\ rb'.trades[Len(rb'.trades)].reason = "stop_loss"]_vars

\* C34: the R-Breaker position state machine.  The position only moves
\* FLAT -> LONG -> FLAT or FLAT -> SHORT -> FLAT: no step changes an open
\* position into another open position, a step that changes the position
\* appends exactly one record, the records alternate between opening (odd
\* places) and closing (even places), a position is open exactly while the
\* last record is an opening one, and each closing record has the opposite
\* action and the quantity of the opening record before it.
C34_PositionStateMachine ==
    /\ [][engine = "rbreaker" =>
             /\ (rb.position # 0 /\ rb'.position # 0) => rb'.position = rb.position
             /\ (rb'.position # rb.position /\ rbrun.pc = "replay") =>
                    /\ Len(rb'.trades) = Len(rb.trades) + 1
                    /\ SubSeq(rb'.trades, 1, Len(rb.trades)) = rb.trades]_vars
    /\ [](engine = "rbreaker" =>
             /\ (rb.position # 0) <=> (Len(rb.trades) % 2 = 1)
             /\ rb.position # 0 =>
                    /\ Abs(rb.position) = rb.trades[Len(rb.trades)].quantity
                    /\ (rb.position > 0)
                           <=> (rb.trades[Len(rb.trades)].action = "BUY")
             /\ \A k \in 1 .. Len(rb.trades) :
                    IF k % 2 = 1
                    THEN /\ RBOpening(rb.trades[k])
                         /\ rb.trades[k].quantity >= 1
                    ELSE /\ ~RBOpening(rb.trades[k])
                         /\ rb.trades[k].quantity = rb.trades[k - 1].quantity
                         /\ rb.trades[k].action # rb.trades[k - 1].action)

\* a long position was opened and stopped out, then a short position was
\* opened and liquidated at the end of the data
C34_Witness ==
    /\ engine = "rbreaker"
    /\ rbrun.pc = "done"
    /\ Len(rb.trades) = 4
    /\ rb.trades[1].action = "BUY"
    /\ rb.trades[2].reason = "stop_loss"
    /\ rb.trades[3].action = "SELL"
    /\ rb.trades[4].reason = "forced"
    /\ rb.position = 0

\* a drop at 0-based row i0 of the day: the close is min_drop_percent or more
\* below the day's first open and the volume is min_volume_surge times the
\* mean of the ten volumes before the row, or more
IDDropAt(df, i0) ==
    /\ i0 >= 20
    /\ (df[i0 + 1].close - df[1].open) * 1000 <= (0 - id_min_drop_percent) * df[1].open
    /\ 100 * df[i0 + 1].volume
           >= id_min_volume_surge * SumOver(SubSeq(df, i0 - 9, i0), IDVolumeOf)
\* the first 0-based row after the last exit of the day
IDRowAfterExit(df, daily_trades) ==
    IF daily_trades = <<>> THEN 0
    ELSE IDRowAt(df, daily_trades[Len(daily_trades)].exit_time) + 1
\* an exit by the take-profit or stop-loss rule: the loop goes on
IDRuleExit == IDBarStep /\ IDOpen /\ IDExited /\ idday'.pc = "loop"

\* C35: drop-then-reversal ordering in the intraday engine.  Every entry is
\* preceded, on the same or an earlier bar of that day and after the day's
\* last exit, by a drop (cumulative return <= -min_drop_percent with volume
\* surge >= min_volume_surge), is made at a bar at which at least two
\* reversal confirmations hold, and consumes the detection: while a position
\* is open and after its exit no detection is pending, so the bar after an
\* exit gives an entry only if it is a drop itself.
C35_DropThenReversal ==
    /\ [][/\ (IDBarStep /\ IDEntered) =>
                LET df == idday'.df
                    i0 == Len(df) - 1
                IN /\ \E j0 \in IDRowAfterExit(df, idday.daily_trades) .. i0 :
                          IDDropAt(df, j0)
                   /\ reversal_conditions(df, i0) >= 2
                   /\ ~idday'.drop_detected
                   /\ ~idday'.looking_for_drop
          /\ IDRuleExit =>
                /\ idday'.looking_for_drop
                /\ ~idday'.drop_detected
                /\ \A c \in IDPrices, v \in IDVolumes, g \in IDGaps :
                       LET t == IDNewBar.time + g
                           df == Append(idday'.df, [time |-> t, open |-> c,
                                                    close |-> c, volume |-> v])
                           r == IterateBar(id', [idday' EXCEPT !.df = df], idrun.days,
                                           t, c, df, Len(df) - 1)
                       IN (t < id_force_close_time /\ r[2].position.quantity # 0)
                              => /\ IDDropAt(df, Len(df) - 1)
                                 /\ reversal_conditions(df, Len(df) - 1) >= 2]_vars
    /\ [](engine = "intraday" /\ idday.position.quantity # 0 =>
              ~idday.drop_detected /\ ~idday.looking_for_drop)

\* a position is open that was entered on the bar after the bar of the drop
C35_Witness ==
    /\ engine = "intraday"
    /\ idday.position.quantity # 0
    /\ Len(idday.df) >= 22
    /\ idday.df[Len(idday.df)].time = idday.position.entry_datetime
    /\ IDDropAt(idday.df, Len(idday.df) - 2)
    /\ idday.df[Len(idday.df) - 1].close < idday.df[Len(idday.df)].close

\* C36: replay determinism on one instance.  run_backtest called twice on the
\* same RBreakerStrategy with the same bars and configuration produces the
\* same trade log and the same report both times.
C36_RerunSameResult ==
    (engine = "rbreaker" /\ rbrun.pc = "calls" /\ Len(rbrun.logs) >= 2) =>
        /\ rbrun.logs[2] = rbrun.logs[1]
        /\ rbrun.reports[2] = rbrun.reports[1]

\* C37: R-Breaker report consistency.  After a run_backtest on a fresh
\* instance, which ends flat, the net pnl of the report (total_pnl -
\* total_commission) equals final capital minus initial capital: every
\* commission is deducted exactly once in the reported net result.
C37_NetPnlIsCapitalChange ==
    (engine = "rbreaker" /\ rbrun.pc = "done" /\ rb.position = 0) =>
        \A k \in 1 .. Len(rbrun.reports) :
            "net_pnl" \in DOMAIN rbrun.reports[k] =>
                rbrun.reports[k].net_pnl
                    = rbrun.reports[k].final_capital - initial_capital

\* frames around the four core conditions of check_breakout_signal, each with
\* the confirmations of the breakout frame and with no confirmation at all
C38Frames ==
    {[Frames["breakout"] EXCEPT
         !.present = present, !.rows = rows, !.volume_surge = volume_surge,
         !.price_change = price_change, !.amplitude = amplitude, !.ma5 = ma5,
         !.ma10 = IF confirmed THEN @ ELSE NaN,
         !.price_change_3d = IF confirmed THEN @ ELSE NaN,
         !.turnover_surge = IF confirmed THEN @ ELSE NaN,
         !.rsi = IF confirmed THEN @ ELSE NaN,
         !.changes = IF confirmed THEN @ ELSE <<0, 0, 0, 0, 0>>,
         !.high20 = IF confirmed THEN @ ELSE 2 * @,
         !.volume_std = IF confirmed THEN @ ELSE 0] :
        present \in BOOLEAN, rows \in {9, 10, 30},
        volume_surge \in {NaN, 49, 50, 60, 100},
        price_change \in {NaN, 99, 100, 300, 301},
        amplitude \in {NaN, 59, 60, 80},
        ma5 \in {NaN, 1020, 1100},
        confirmed \in BOOLEAN}
\* the four core conditions with the default thresholds, on a day with a bar
\* and ten rows of history
C38Core(x) ==
    /\ x.present /\ x.rows >= 10
    /\ x.volume_surge # NaN /\ x.volume_surge >= 50
    /\ x.price_change # NaN /\ x.price_change >= 100 /\ x.price_change <= 300
    /\ x.amplitude # NaN /\ x.amplitude >= 60
    /\ x.ma5 # NaN /\ x.close > x.ma5
\* the place of a symbol in all_data.keys()
MCUniverseIndex(sym) == CHOOSE i \in 1 .. Len(Universe) : Universe[i] = sym

\* C38: signal strength saturation in check_breakout_signal.  Every
\* candidate that passes the four core conditions with the default thresholds
\* (volume_surge >= 5, price_change in 0.1 .. 0.3, amplitude >= 0.06,
\* close > ma5) is returned with signal_strength exactly 1.0, above the 0.65
\* cutoff, whatever its confirmation score, and every other frame gives no
\* signal; so all long candidates of a day tie on strength and are bought in
\* the order of the universe, no candidate being passed over for a later one.
C38_StrengthSaturates ==
    /\ [](engine = "daily" /\ mcrun.pc = "idle" =>
              \A x \in C38Frames :
                  check_breakout_signal(x)
                      = IF C38Core(x) THEN [ok |-> TRUE, strength |-> StrengthScale]
                        ELSE NoSignal)
    /\ [][MCDayStep =>
            LET buys == SelectSeq(MCNewTrades, LAMBDA t : t.action = "BUY")
                bought == {buys[k].symbol : k \in 1 .. Len(buys)}
                passed == {sym \in Symbols \ bought :
                              /\ ~Held(mc'.positions, sym)
                              /\ check_breakout_signal(mcrun'.frames[sym]).ok}
            IN /\ \A sym \in Symbols :
                      check_breakout_signal(mcrun'.frames[sym]).ok =>
                          check_breakout_signal(mcrun'.frames[sym]).strength
                              = StrengthScale
               /\ \A i, j \in 1 .. Len(buys) :
                      i < j => MCUniverseIndex(buys[i].symbol)
                                   < MCUniverseIndex(buys[j].symbol)
               /\ \A a \in passed, b \in bought :
                      MCUniverseIndex(b) < MCUniverseIndex(a)]_vars

\* all four symbols showed the breakout frame on the first day, the first
\* three of the universe were bought in its order, and the frame with the
\* lowest core values and no confirmation has the full strength too
C38_Witness ==
    /\ engine = "daily"
    /\ mc.trading_days = 1
    /\ Len(mc.trades) = 3
    /\ \A k \in 1 .. 3 : mc.trades[k].action = "BUY" /\ mc.trades[k].symbol = Universe[k]
    /\ \A sym \in Symbols :
           check_breakout_signal(mcrun.frames[sym])
               = [ok |-> TRUE, strength |-> StrengthScale]
    /\ \E x \in C38Frames :
           /\ x.volume_surge = 50 /\ x.price_change = 100 /\ x.amplitude = 60
           /\ x.rsi = NaN
           /\ check_breakout_signal(x).strength = StrengthScale

\* C39: in MidCapBreakoutStrategy.run_backtest with enable_short = True no
\* symbol is held in positions (long) and in short_positions (short) at the
\* same time, in any reachable state.
C39_NeverLongAndShort ==
    (engine = "daily" /\ mc.cfg.enable_short) =>
        \A sym \in Symbols :
            ~(Held(mc.positions, sym) /\ Held(mc.short_positions, sym))

\* C40: in the intraday engine no position is opened on a bar whose time is
\* at or after force_close_time (15:45): every recorded trade has entry_time
\* strictly before force_close_time, and after a forced close-out no further
\* entry happens on that day.
C40_NoEntryFromForceCloseTime ==
    /\ [](engine = "intraday" =>
              \A k \in 1 .. Len(IDAllTrades) :
                  IDAllTrades[k].entry_time < id_force_close_time)
    /\ [][IDBarStep /\ IDEntered =>
              /\ IDNewBar.time < id_force_close_time
              /\ \A k \in 1 .. Len(idday.daily_trades) :
                     idday.daily_trades[k].exit_reason # "force_close"]_vars

====
